---- MODULE Spec2Model ----
(***************************************************************************)
(* StudioZero: the video generation pipeline (src/src/pipeline.py) and the *)
(* duration handling of the renderer (src/src/renderer.py).                *)
(*                                                                         *)
(* Spec      : runs of VideoGenerationPipeline.run, online and offline,    *)
(*             over one job directory (cache file + asset files).          *)
(* SpecNorm  : the durations produced by _normalize_video / _concat_media  *)
(*             and the duration policy of render_from_scenes.              *)
(* SpecCache : _save_cache / _load_cache at the granularity of the file    *)
(*             operations they perform.                                    *)
(* SpecSubs  : generate_karaoke_subtitles (src/src/subtitles.py).          *)
(* SpecStock : download_video (src/src/stock_media.py).                    *)
(* SpecApp   : run_pipeline_with_logging (src/src/app.py) pulling the      *)
(*             events of run() one at a time.                              *)
(* SpecBatch : run_batch / process_movie (src/src/batch_runner.py) over    *)
(*             the rows of the sheet (src/src/cloud_services.py).          *)
(*                                                                         *)
(* Times are integers.  In Spec one unit is one second of narration; in    *)
(* SpecNorm one unit is one frame at FPS.                                  *)
(***************************************************************************)
EXTENDS Integers, Sequences, FiniteSets, TLC

\* ------------------------------------------------------------------ bounds
\* Number of scenes of a script (the schema fixes it to 6; the model scales it).
NumScenes == 2
\* Narration lengths a TTS call can return, 1..MaxDuration seconds.
MaxDuration == 2
\* Changes made to the job directory between two runs (a file removed, a key
\* of the cache document lost).
MaxDamage == 1

Durations == 1..MaxDuration

\* ------------------------------------------------------------- file names
\* A path is <<kind, n>>; NoPath is the empty string / None of the code.
NoPath == <<"", 0>>
AudioFile(n) == <<"scene_audio", n>>
VideoFile(n) == <<"scene_video", n>>
PosterFile == <<"poster", 0>>
EndingAudioFile == <<"ending_audio", 0>>

\* ------------------------------------------------------------ cache record
NoDetails == [present |-> FALSE, plot |-> FALSE, poster_path |-> FALSE]
NoSceneAssets == [n \in {} |-> 0]
\* cache_data = {} of run(); video_script = 0 stands for a missing key,
\* ending_scene is a sequence of at most one record.
EmptyCache ==
    [movie_details |-> NoDetails, poster_path |-> NoPath, video_script |-> 0,
     has_scene_assets |-> FALSE, scene_assets |-> NoSceneAssets, ending_scene |-> <<>>]

\* The cache file: absent, or holding a complete JSON document, or holding a
\* truncated one (opened for writing, document not completely written).
NoFile == [state |-> "absent", doc |-> EmptyCache]
TruncatedFile == [state |-> "truncated", doc |-> EmptyCache]
CompleteFile(doc) == [state |-> "complete", doc |-> doc]

VARIABLES
    pc,                 \* position of run(): idle, s1, s1_script, s2, s2_wait, ...
    offline,            \* self.offline
    damage,             \* changes made to the job directory so far
    disk,               \* the cache file of the job
    fs,                 \* asset files present on disk
    cache_data,         \* cache_data of run()
    script,             \* number of scenes of the accepted script, 0 = None
    poster_local_path,  \* poster_local_path of run()
    scene_assets_list,  \* scene_assets_list of run()
    yielded,            \* the PipelineStatus objects yielded by the latest step that yielded
    failed,             \* what failed in the latest step of run() ("" = nothing)
    final_video_path,   \* third component of the returned tuple ("" = None)
    scene_pos,          \* position of the stage 2 loop in script.scenes (1-based)
    fetches,            \* worker tasks in flight: [op, scene]
    futures,            \* state of the two futures of _process_scene_parallel
    audio_result,       \* nonlocal audio_duration of _process_scene_parallel
    video_result,       \* nonlocal video_path of _process_scene_parallel
    status_messages,    \* status_messages of _process_scene_parallel
    asset_pos,          \* position of the stage 3 loop in scene_assets_list
    cumulative_offset,  \* cumulative_offset of stage 3
    applied_offset,     \* history: the offset in force while asset k was transcribed
    all_words,          \* words of all_whisper_segments, in order
    subtitle_path,      \* subtitle_path handed to the renderer (FALSE = None)
    cache_writes,       \* history: times the cache file was opened for writing in this run
    calls,              \* history: external collaborators called in this run
    online_result,      \* history: scene_assets_list of the last online run that saved its cache
    saved_doc,          \* history: the document that run saved
    norm,               \* state of SpecNorm
    cstore,             \* state of SpecCache
    subs,               \* state of SpecSubs
    stock,              \* state of SpecStock
    app,                \* state of SpecApp
    batch               \* state of SpecBatch

vars == <<pc, offline, damage, disk, fs, cache_data, script, poster_local_path,
          scene_assets_list, yielded, failed, final_video_path, scene_pos,
          fetches, futures, audio_result, video_result, status_messages, asset_pos,
          cumulative_offset, applied_offset, all_words, subtitle_path, cache_writes, calls,
          online_result, saved_doc, norm, cstore, subs, stock, app, batch>>

\* Variables of the side specifications, and those of the pipeline run.
sideVars == <<norm, cstore, subs, stock, app, batch>>
runVars == <<pc, offline, damage, disk, fs, cache_data, script, poster_local_path,
             scene_assets_list, yielded, failed, final_video_path, scene_pos,
             fetches, futures, audio_result, video_result, status_messages, asset_pos,
             cumulative_offset, applied_offset, all_words, subtitle_path, cache_writes,
             calls, online_result, saved_doc>>

\* --------------------------------------------------------------- helpers
RECURSIVE SumDurations(_, _)
\* sum of audio_duration over the first n entries of a scene-asset list
SumDurations(list, n) ==
    IF n = 0 THEN 0 ELSE SumDurations(list, n - 1) + list[n].audio_duration

PipelineStatus(step, message, is_error) ==
    [step |-> step, message |-> message, is_error |-> is_error]

Info(step, message) == PipelineStatus(step, message, FALSE)
Error(step, message) == PipelineStatus(step, message, TRUE)

NoFutures == [op \in {"tts", "video"} |-> "none"]

\* _load_cache: the parsed document, or None (present = FALSE) when the file
\* does not exist or json.load raises on it.
LoadCache(file) ==
    IF file.state = "complete"
    THEN [present |-> TRUE, doc |-> file.doc]
    ELSE [present |-> FALSE, doc |-> EmptyCache]

SceneAssets(index, audio_path, audio_duration, video_path, poster_path, is_ending) ==
    [index |-> index, audio_path |-> audio_path, audio_duration |-> audio_duration,
     video_path |-> video_path, poster_path |-> poster_path,
     is_ending_scene |-> is_ending, word_timestamps |-> <<>>]

\* What a run selected for each scene: the entries without their captions.
Selection(list) ==
    [k \in 1..Len(list) |-> [list[k] EXCEPT !.word_timestamps = <<>>]]

\* A mutant of CachedScene: the record does not keep the video path.
CachedSceneNoVideo(audio_path, audio_duration, video_path) ==
    [audio_path |-> audio_path, audio_duration |-> audio_duration, video_path |-> NoPath]

CachedScene(audio_path, audio_duration, video_path) ==
    [audio_path |-> audio_path, audio_duration |-> audio_duration, video_path |-> video_path]

\* ------------------------------------------------------------------- Init
\* The side specifications at rest.
NormOff == [phase |-> "off"]
CacheOff == [phase |-> "off"]
SubsOff == [phase |-> "off"]
StockOff == [phase |-> "off"]
AppOff == [consumer |-> "off"]
BatchOff == [phase |-> "off"]

\* The pipeline before any run (the object after __init__, pipeline.py 125-137).
InitRun ==
    /\ pc = "idle"
    /\ offline = FALSE
    /\ damage = 0
    /\ disk = NoFile
    /\ fs = {}
    /\ cache_data = EmptyCache
    /\ script = 0
    /\ poster_local_path = NoPath
    /\ scene_assets_list = <<>>
    /\ yielded = <<>>
    /\ failed = ""
    /\ final_video_path = ""
    /\ scene_pos = 0
    /\ fetches = {}
    /\ futures = NoFutures
    /\ audio_result = 0
    /\ video_result = NoPath
    /\ status_messages = <<>>
    /\ asset_pos = 0
    /\ cumulative_offset = 0
    /\ applied_offset = <<>>
    /\ all_words = <<>>
    /\ subtitle_path = FALSE
    /\ cache_writes = 0
    /\ calls = {}
    /\ online_result = <<>>
    /\ saved_doc = EmptyCache

Init ==
    /\ InitRun
    /\ norm = NormOff
    /\ cstore = CacheOff
    /\ subs = SubsOff
    /\ stock = StockOff
    /\ app = AppOff
    /\ batch = BatchOff

\* Locals of run() at the start of a call (pipeline.py 259-262) and the
\* per-run history.
ResetRun ==
    /\ cache_data' = EmptyCache
    /\ script' = 0
    /\ poster_local_path' = NoPath
    /\ scene_assets_list' = <<>>
    /\ final_video_path' = ""
    /\ scene_pos' = 0
    /\ fetches' = {}
    /\ futures' = NoFutures
    /\ audio_result' = 0
    /\ video_result' = NoPath
    /\ status_messages' = <<>>
    /\ asset_pos' = 0
    /\ cumulative_offset' = 0
    /\ applied_offset' = <<>>
    /\ all_words' = <<>>
    /\ subtitle_path' = FALSE
    /\ cache_writes' = 0
    /\ calls' = {}

\* A mutant of Return: every return statement hands back the output path.
ReturnOutputPath(path) ==
    /\ pc' = "done"
    /\ final_video_path' = "final.mp4"

\* The return statements of run(): the generator ends with the given path.
Return(path) ==
    /\ pc' = "done"
    /\ final_video_path' = path

\* A mutant of UnexpectedError: the outer handler reports the exception as an
\* ordinary event.
UnexpectedErrorNotFlagged == Info(0, "Unexpected error")

\* The outer handler of run() (pipeline.py 682-685).
UnexpectedError == Error(0, "Unexpected error")

\* The job directory before any run has written to it.
FreshDirectory == disk = NoFile /\ fs = {}

\* run_pipeline / a consumer creates the pipeline and pulls the first event.
\* Online runs are started in a fresh job directory; offline replays at any time.
StartRun(off) ==
    /\ pc = "idle"
    /\ ~off => FreshDirectory
    /\ offline' = off
    /\ yielded' = <<Info(1, "Fetching movie data...")>>
    /\ failed' = ""
    /\ pc' = "s1"
    /\ UNCHANGED <<damage, disk, fs, cache_data, script, poster_local_path,
                   scene_assets_list, final_video_path, scene_pos, fetches, futures,
                   audio_result, video_result, status_messages, asset_pos,
                   cumulative_offset, applied_offset, all_words, subtitle_path,
                   cache_writes, calls, online_result, saved_doc, sideVars>>

\* The consumer has taken the returned tuple (pipeline.py 712-714): the
\* generator and its locals are gone, the job directory stays.
RunReturned ==
    /\ pc = "done"
    /\ pc' = "idle"
    /\ ResetRun
    /\ yielded' = <<>>
    /\ failed' = ""
    /\ UNCHANGED <<offline, damage, disk, fs, online_result, saved_doc, sideVars>>

\* `not cache_data` (pipeline.py 272): None or an empty dict.
IsEmptyDoc(doc) ==
    /\ ~doc.movie_details.present
    /\ doc.poster_path = NoPath
    /\ doc.video_script = 0
    /\ ~doc.has_scene_assets

\* ---------------------------------------------------------------- stage 1
\* Online metadata acquisition, pipeline.py 287-357.  The inputs are the
\* answers of the movie-metadata collaborator: search_movie (found / none /
\* raises), get_movie_details, the plot, poster and year fields of the
\* details, get_tmdb_metadata and download_poster.  The result holds the
\* events yielded, how the section ends and what it leaves in the locals.
OnlineMetadata(search, details, plot, poster, year, tmdb, download) ==
    LET searching == <<Info(1, "Searching for movie")>>
        md0 == [present |-> TRUE, plot |-> plot, poster_path |-> poster]
        extra == ~poster \/ ~year
        poster2 == IF extra /\ tmdb # "none" THEN poster \/ tmdb = "poster" ELSE poster
        md1 == IF extra /\ tmdb # "none" THEN [md0 EXCEPT !.poster_path = poster2] ELSE md0
        tmdbEvents ==
            IF ~extra THEN <<>>
            ELSE <<Info(1, "Fetching additional metadata from TMDB...")>> \o
                 (IF tmdb # "none" THEN <<Info(1, "TMDB metadata")>>
                  ELSE <<Info(1, "Could not fetch TMDB metadata")>>)
        got == poster2 /\ download = "ok"
        posterEvents ==
            IF ~poster2 THEN <<>>
            ELSE <<Info(1, "Downloading movie poster...")>> \o
                 (IF got THEN <<Info(1, "Poster downloaded")>>
                  ELSE <<Info(1, "Could not download poster (will skip ending poster scene)")>>)
        stop(evs, md, what) == [end |-> "return", events |-> evs, failed |-> what,
                                movie_details |-> md, poster |-> NoPath]
    IN  IF search = "raise"
        THEN [end |-> "raise", events |-> searching \o <<UnexpectedError>>,
              failed |-> "movie_metadata", movie_details |-> NoDetails, poster |-> NoPath]
        ELSE IF search = "none"
        THEN stop(searching \o <<Error(1, "Could not find any movie")>>, NoDetails,
                  "movie_search")
        ELSE IF details = "none"
        THEN stop(searching \o <<Error(1, "Failed to retrieve movie details.")>>, NoDetails,
                  "movie_details")
        ELSE IF ~plot
        THEN stop(searching \o <<Error(1, "No plot found for this movie.")>>, md0, "plot")
        ELSE [end |-> "continue", failed |-> "",
              events |-> searching \o tmdbEvents \o <<Info(1, "Found")>> \o posterEvents,
              movie_details |-> md1,
              poster |-> IF got THEN PosterFile ELSE NoPath]

Step1Online ==
    /\ pc = "s1"
    /\ ~offline
    /\ \E search \in {"found", "none", "raise"}, details \in {"ok", "none"},
          plot \in BOOLEAN, poster \in BOOLEAN, year \in BOOLEAN,
          tmdb \in {"poster", "noposter", "none"}, download \in {"ok", "fail"} :
          LET r == OnlineMetadata(search, details, plot, poster, year, tmdb, download)
          IN  /\ yielded' = r.events
              /\ failed' = r.failed
              /\ cache_data' = [cache_data EXCEPT !.movie_details = r.movie_details,
                                                  !.poster_path = r.poster]
              /\ poster_local_path' = r.poster
              /\ fs' = IF r.poster = PosterFile THEN fs \cup {PosterFile} ELSE fs
              /\ IF r.end = "continue"
                 THEN pc' = "s1_script" /\ UNCHANGED final_video_path
                 ELSE Return("")
    /\ calls' = calls \cup {"movie_metadata"}
    /\ UNCHANGED <<offline, damage, disk, script, scene_assets_list, scene_pos,
                   fetches, futures, audio_result, video_result, status_messages, asset_pos,
                   cumulative_offset, applied_offset, all_words, subtitle_path,
                   cache_writes, online_result, saved_doc, sideVars>>

\* Offline metadata acquisition, pipeline.py 270-285, 305-313, 336-340, 353-356.
OfflineMetadata(file, files) ==
    LET loaded == LoadCache(file)
        doc == loaded.doc
        stop(evs, what) == [end |-> "return", events |-> evs, failed |-> what,
                            cache_data |-> doc]
    IN  IF ~loaded.present \/ IsEmptyDoc(doc)
        THEN [end |-> "return", events |-> <<Error(1, "No cached data found")>>,
              failed |-> "cache", cache_data |-> EmptyCache]
        ELSE IF ~doc.movie_details.present
        THEN stop(<<Error(1, "No movie details in cache.")>>, "cached_details")
        ELSE IF ~doc.movie_details.plot
        THEN stop(<<Info(1, "Using cached movie details"),
                    Error(1, "No plot found for this movie.")>>, "plot")
        ELSE [end |-> "continue", failed |-> "",
              events |-> <<Info(1, "Using cached movie details"), Info(1, "Found")>> \o
                         (IF doc.poster_path # NoPath /\ doc.poster_path \in files
                          THEN <<Info(1, "Using cached poster")>> ELSE <<>>),
              cache_data |-> doc]

Step1Offline ==
    /\ pc = "s1"
    /\ offline
    /\ LET r == OfflineMetadata(disk, fs)
       IN  /\ yielded' = r.events
           /\ failed' = r.failed
           /\ cache_data' = r.cache_data
           /\ poster_local_path' = r.cache_data.poster_path
           /\ IF r.end = "continue"
              THEN pc' = "s1_script" /\ UNCHANGED final_video_path
              ELSE Return("")
    /\ UNCHANGED <<offline, damage, disk, fs, script, scene_assets_list, scene_pos,
                   fetches, futures, audio_result, video_result, status_messages, asset_pos,
                   cumulative_offset, applied_offset, all_words, subtitle_path,
                   cache_writes, calls, online_result, saved_doc, sideVars>>

\* Script acquisition, pipeline.py 358-387: the cached script offline, the
\* script generator online (it returns a script of NumScenes scenes or
\* raises).
ScriptEvents == <<Info(1, "Script generated")>>

Step1ScriptOffline ==
    /\ pc = "s1_script"
    /\ offline
    /\ IF cache_data.video_script = 0
       THEN /\ yielded' = <<Info(1, "Generating video script with AI..."),
                                     Error(1, "No script data in cache.")>>
            /\ failed' = "cached_script"
            /\ Return("")
            /\ UNCHANGED <<script, cache_data, scene_pos>>
       ELSE /\ script' = cache_data.video_script
            /\ yielded' = <<Info(1, "Generating video script with AI..."),
                                     Info(1, "Using cached script")>> \o ScriptEvents
            /\ failed' = ""
            /\ pc' = "s2_begin"
            /\ UNCHANGED <<final_video_path, cache_data, scene_pos>>
    /\ UNCHANGED <<offline, damage, disk, fs, poster_local_path, scene_assets_list,
                   fetches, futures, audio_result, video_result, status_messages, asset_pos,
                   cumulative_offset, applied_offset, all_words, subtitle_path,
                   cache_writes, calls, online_result, saved_doc, sideVars>>

Step1ScriptOnline ==
    /\ pc = "s1_script"
    /\ ~offline
    /\ calls' = calls \cup {"script_generator"}
    /\ \E generated \in BOOLEAN :
          IF generated
          THEN /\ script' = NumScenes
               /\ cache_data' = [cache_data EXCEPT !.video_script = NumScenes]
               /\ yielded' = <<Info(1, "Generating video script with AI...")>>
                                   \o ScriptEvents
               /\ failed' = ""
               /\ pc' = "s2_begin"
               /\ UNCHANGED <<final_video_path, scene_pos>>
          ELSE /\ yielded' = <<Info(1, "Generating video script with AI..."),
                                        UnexpectedError>>
               /\ failed' = "script_generator"
               /\ Return("")
               /\ UNCHANGED <<script, cache_data, scene_pos>>
    /\ UNCHANGED <<offline, damage, disk, fs, poster_local_path, scene_assets_list,
                   fetches, futures, audio_result, video_result, status_messages, asset_pos,
                   cumulative_offset, applied_offset, all_words, subtitle_path,
                   cache_writes, online_result, saved_doc, sideVars>>

\* ---------------------------------------------------------------- stage 2
\* scene_index of the scene at position p of script.scenes (0-based indices).
SceneIndex(p) == p - 1

\* pipeline.py 384-387
Step2Begin ==
    /\ pc = "s2_begin"
    /\ yielded' = <<Info(2, "Processing scenes (parallel TTS + video download)...")>>
    /\ cache_data' = [cache_data EXCEPT !.has_scene_assets = TRUE]
    /\ failed' = ""
    /\ scene_pos' = 1
    /\ pc' = "s2"
    /\ UNCHANGED <<offline, damage, disk, fs, script, poster_local_path,
                   scene_assets_list, final_video_path, fetches, futures, audio_result,
                   video_result, status_messages, asset_pos, cumulative_offset,
                   applied_offset, all_words, subtitle_path, cache_writes, calls,
                   online_result, saved_doc, sideVars>>

\* A mutant of Collected: the new asset is put in front of the list.
CollectedFirst(list, assets) == assets \o list

\* `scene_assets_list.append(scene_asset)`, pipeline.py 458; assets holds the
\* asset of the scene, or nothing when the scene was skipped.
Collected(list, assets) == list \o assets

\* A mutant of OfflineScene: a cached record is used without looking for its
\* files.
OfflineSceneNoFileCheck(doc, files, n) ==
    LET processing == <<Info(2, "Processing scene")>>
        rec == doc.scene_assets[n]
    IN  IF n \notin DOMAIN doc.scene_assets
        THEN [events |-> processing \o <<Error(2, "No cached data for scene")>>,
              failed |-> "cached_scene", asset |-> <<>>]
        ELSE [events |-> processing \o <<Info(2, "Using cached assets")>>, failed |-> "",
              asset |-> <<SceneAssets(n, rec.audio_path, rec.audio_duration,
                                      rec.video_path, NoPath, FALSE)>>]

\* One iteration of the scene loop offline, pipeline.py 389-421 and 449-458:
\* the events it yields and the asset it appends (a sequence of at most one).
OfflineScene(doc, files, n) ==
    LET processing == <<Info(2, "Processing scene")>>
        known == n \in DOMAIN doc.scene_assets
        rec == doc.scene_assets[n]
    IN  IF ~known
        THEN [events |-> processing \o <<Error(2, "No cached data for scene")>>,
              failed |-> "cached_scene", asset |-> <<>>]
        ELSE IF rec.audio_path \notin files \/ rec.video_path \notin files
        THEN [events |-> processing \o <<Error(2, "Cached files not found for scene")>>,
              failed |-> "cached_files", asset |-> <<>>]
        ELSE [events |-> processing \o <<Info(2, "Using cached assets")>>, failed |-> "",
              asset |-> <<SceneAssets(n, rec.audio_path, rec.audio_duration,
                                      rec.video_path, NoPath, FALSE)>>]

Step2SceneOffline ==
    /\ pc = "s2"
    /\ offline
    /\ scene_pos <= script
    /\ LET r == OfflineScene(cache_data, fs, SceneIndex(scene_pos))
       IN  /\ yielded' = r.events
           /\ failed' = r.failed
           /\ scene_assets_list' = Collected(scene_assets_list, r.asset)
    /\ scene_pos' = scene_pos + 1
    /\ UNCHANGED <<pc, offline, damage, disk, fs, cache_data, script,
                   poster_local_path, final_video_path, fetches, futures, audio_result,
                   video_result, status_messages, asset_pos, cumulative_offset,
                   applied_offset, all_words, subtitle_path, cache_writes, calls,
                   online_result, saved_doc, sideVars>>

\* Online: run() enters _process_scene_parallel, which submits generate_tts
\* and download_stock_video to the 2-worker pool (pipeline.py 393-396,
\* 423-430, 188-236).  Each task appends its first status message when it starts.
Task(op, n) == [op |-> op, scene |-> n]

Step2Submit ==
    /\ pc = "s2"
    /\ ~offline
    /\ scene_pos <= script
    /\ yielded' = <<Info(2, "Processing scene")>>
    /\ fetches' = fetches \cup {Task("tts", SceneIndex(scene_pos)),
                                Task("video", SceneIndex(scene_pos))}
    /\ futures' = [op \in {"tts", "video"} |-> "running"]
    /\ audio_result' = 0
    /\ video_result' = NoPath
    /\ status_messages' = <<"Generating TTS", "Searching Pexels">>
    /\ calls' = calls \cup {"tts", "footage"}
    /\ failed' = ""
    /\ pc' = "s2_wait"
    /\ UNCHANGED <<offline, damage, disk, fs, cache_data, script, poster_local_path,
                   scene_assets_list, final_video_path, scene_pos, asset_pos,
                   cumulative_offset, applied_offset, all_words, subtitle_path,
                   cache_writes, online_result, saved_doc, sideVars>>

\* Is this task one of the two futures the main thread is waiting for?
Awaited(t) == pc = "s2_wait" /\ t.scene = SceneIndex(scene_pos)

\* generate_tts returns (pipeline.py 204-214): generate_audio wrote the wav
\* file and returned its duration.
TtsReturns(t, duration) ==
    /\ t \in fetches
    /\ t.op = "tts"
    /\ fetches' = fetches \ {t}
    /\ fs' = fs \cup {AudioFile(t.scene)}
    /\ IF Awaited(t)
       THEN /\ futures' = [futures EXCEPT !["tts"] = "ok"]
            /\ audio_result' = duration
            /\ status_messages' = Append(status_messages, "TTS complete")
       ELSE UNCHANGED <<futures, audio_result, status_messages>>
    /\ UNCHANGED <<pc, offline, damage, disk, cache_data, script, poster_local_path,
                   scene_assets_list, yielded, failed, final_video_path, scene_pos, video_result,
                   asset_pos, cumulative_offset, applied_offset, all_words,
                   subtitle_path, cache_writes, calls, online_result, saved_doc, sideVars>>

\* A mutant of VideoAssigned: without the nonlocal declaration the path is
\* bound to a local of the task and the enclosing variable keeps None.
VideoNotAssigned(scene) == NoPath

\* What download_stock_video assigns to the enclosing function's video_path
\* (pipeline.py 216-223).
VideoAssigned(scene) == VideoFile(scene)

\* download_stock_video returns (pipeline.py 216-229): download_video wrote
\* the clip and returned its path.
VideoReturns(t) ==
    /\ t \in fetches
    /\ t.op = "video"
    /\ fetches' = fetches \ {t}
    /\ fs' = fs \cup {VideoFile(t.scene)}
    /\ IF Awaited(t)
       THEN /\ futures' = [futures EXCEPT !["video"] = "ok"]
            /\ video_result' = VideoAssigned(t.scene)
            /\ status_messages' = Append(status_messages, "Downloaded video")
       ELSE UNCHANGED <<futures, video_result, status_messages>>
    /\ UNCHANGED <<pc, offline, damage, disk, cache_data, script, poster_local_path,
                   scene_assets_list, yielded, failed, final_video_path, scene_pos, audio_result,
                   asset_pos, cumulative_offset, applied_offset, all_words,
                   subtitle_path, cache_writes, calls, online_result, saved_doc, sideVars>>

\* Either task raises (generate_audio: RuntimeError, download_video:
\* VideoNotFoundError): the future holds the exception, nothing is assigned.
TaskRaises(t) ==
    /\ t \in fetches
    /\ fetches' = fetches \ {t}
    /\ IF Awaited(t)
       THEN futures' = [futures EXCEPT ![t.op] = "failed"]
       ELSE UNCHANGED futures
    /\ UNCHANGED <<pc, offline, damage, disk, fs, cache_data, script,
                   poster_local_path, scene_assets_list, yielded, failed, final_video_path,
                   scene_pos, audio_result, video_result, status_messages, asset_pos,
                   cumulative_offset, applied_offset, all_words, subtitle_path,
                   cache_writes, calls, online_result, saved_doc, sideVars>>

\* A mutant of ExecutorExit: the pool is left as soon as a future has raised,
\* without waiting for the other task (shutdown(wait=False)).
ExecutorExitNoWait(fut) ==
    \/ \E op \in DOMAIN fut : fut[op] = "failed"
    \/ \A op \in DOMAIN fut : fut[op] = "ok"

\* The main thread leaves the `with ThreadPoolExecutor` block of
\* _process_scene_parallel (pipeline.py 232-242): as_completed has yielded
\* every future or one result() raised, and the pool's shutdown(wait=True)
\* has joined both workers.
ExecutorExit(fut) == \A op \in DOMAIN fut : fut[op] \in {"ok", "failed"}

\* A mutant of SceneRaised: only the exception of the TTS task is re-raised.
SceneRaisedTtsOnly(fut) == fut["tts"] = "failed"

\* Does _process_scene_parallel raise?  result() re-raises a task's exception.
SceneRaised(fut) == \E op \in DOMAIN fut : fut[op] = "failed"

\* A mutant of NextScene: a scene whose processing raised is tried again.
NextSceneRetry(pos, raised) == IF raised THEN pos ELSE pos + 1

\* The scene loop goes on with the next scene of the script, whether the body
\* ended normally or in its except clause (pipeline.py 389, 452-458).
NextScene(pos, raised) == pos + 1

\* _process_scene_parallel has returned or raised: the rest of the loop body
\* (pipeline.py 432-458).
Step2Join ==
    /\ pc = "s2_wait"
    /\ ExecutorExit(futures)
    /\ LET n == SceneIndex(scene_pos)
       IN  IF SceneRaised(futures)
           THEN /\ yielded' = <<Error(2, "Failed to process scene")>>
                /\ failed' = "scene_fetch"
                /\ UNCHANGED <<cache_data, scene_assets_list>>
           ELSE /\ failed' = ""
                /\ yielded' =
                       [k \in 1..Len(status_messages) |-> Info(2, status_messages[k])]
                /\ cache_data' = [cache_data EXCEPT !.scene_assets =
                       [m \in DOMAIN cache_data.scene_assets \cup {n} |->
                           IF m = n THEN CachedScene(AudioFile(n), audio_result, video_result)
                           ELSE cache_data.scene_assets[m]]]
                /\ scene_assets_list' = Collected(scene_assets_list,
                       <<SceneAssets(n, AudioFile(n), audio_result, video_result,
                                     NoPath, FALSE)>>)
    /\ status_messages' = <<>>
    /\ audio_result' = 0
    /\ video_result' = NoPath
    /\ scene_pos' = NextScene(scene_pos, SceneRaised(futures))
    /\ pc' = "s2"
    /\ UNCHANGED <<offline, damage, disk, fs, script, poster_local_path,
                   final_video_path, fetches, futures, asset_pos,
                   cumulative_offset, applied_offset, all_words, subtitle_path,
                   cache_writes, calls, online_result, saved_doc, sideVars>>

\* A mutant of NoScenesProcessed: the check after the loop is skipped.
NoScenesCheckSkipped(list) == FALSE

\* `if not scene_assets_list`, pipeline.py 460.
NoScenesProcessed(list) == list = <<>>

\* After the loop, pipeline.py 460-467.
Step2Done ==
    /\ pc = "s2"
    /\ scene_pos > script
    /\ IF NoScenesProcessed(scene_assets_list)
       THEN /\ yielded' = <<Error(2, "No scenes were processed successfully.")>>
            /\ failed' = "no_scenes"
            /\ Return("")
       ELSE /\ yielded' = <<Info(2, "Scene processing complete")>>
            /\ failed' = ""
            /\ pc' = "s2_ending"
            /\ UNCHANGED final_video_path
    /\ futures' = NoFutures
    /\ UNCHANGED <<offline, damage, disk, fs, cache_data, script, poster_local_path,
                   scene_assets_list, scene_pos, fetches, audio_result,
                   video_result, status_messages, asset_pos, cumulative_offset,
                   applied_offset, all_words, subtitle_path, cache_writes, calls,
                   online_result, saved_doc, sideVars>>

\* A mutant of OfflineEnding: the ending scene is numbered one past
\* len(scene_assets_list).
OfflineEndingIndexOff(doc, files, list) ==
    IF doc.ending_scene = <<>>
    THEN [events |-> <<Info(2, "No ending scene in cache")>>, asset |-> <<>>]
    ELSE LET rec == doc.ending_scene[1]
         IN  IF /\ rec.audio_path # NoPath /\ rec.audio_path \in files
                /\ rec.poster_path # NoPath /\ rec.poster_path \in files
             THEN [events |-> <<Info(2, "Loading cached ending scene..."),
                                Info(2, "Ending scene loaded")>>,
                   asset |-> <<SceneAssets(Len(list) + 1, rec.audio_path,
                                           rec.audio_duration, NoPath,
                                           rec.poster_path, TRUE)>>]
             ELSE [events |-> <<Info(2, "Cached ending scene files not found")>>,
                   asset |-> <<>>]

\* The ending scene, pipeline.py 472-548.
\* Offline: rebuilt from the ending_scene record when both its files exist.
OfflineEnding(doc, files, list) ==
    IF doc.ending_scene = <<>>
    THEN [events |-> <<Info(2, "No ending scene in cache")>>, asset |-> <<>>]
    ELSE LET rec == doc.ending_scene[1]
         IN  IF /\ rec.audio_path # NoPath /\ rec.audio_path \in files
                /\ rec.poster_path # NoPath /\ rec.poster_path \in files
             THEN [events |-> <<Info(2, "Loading cached ending scene..."),
                                Info(2, "Ending scene loaded")>>,
                   asset |-> <<SceneAssets(Len(list), rec.audio_path, rec.audio_duration,
                                           NoPath, rec.poster_path, TRUE)>>]
             ELSE [events |-> <<Info(2, "Cached ending scene files not found")>>,
                   asset |-> <<>>]

Step2EndingOffline ==
    /\ pc = "s2_ending"
    /\ offline
    /\ LET r == OfflineEnding(cache_data, fs, scene_assets_list)
       IN  /\ yielded' = r.events
           /\ scene_assets_list' = scene_assets_list \o r.asset
    /\ failed' = ""
    /\ pc' = "s3_begin"
    /\ UNCHANGED <<offline, damage, disk, fs, cache_data, script, poster_local_path,
                   final_video_path, scene_pos, fetches, futures, audio_result,
                   video_result, status_messages, asset_pos, cumulative_offset,
                   applied_offset, all_words, subtitle_path, cache_writes, calls,
                   online_result, saved_doc, sideVars>>

\* A mutant of PosterResolved: the ending scene is built without a poster.
PosterResolvedAlways(path, files) == TRUE

\* `poster_local_path and Path(poster_local_path).exists()`, pipeline.py 498.
PosterResolved(path, files) == path # NoPath /\ path \in files

\* A mutant of EndingFailed: the event is not flagged as an error.
EndingFailedNotFlagged == Info(2, "Failed to create ending scene")

\* The event of the except clause around the ending scene, pipeline.py 541-546.
EndingFailed == Error(2, "Failed to create ending scene")

\* Online: when the poster was downloaded, generate_audio is called in the
\* main thread for the reveal line; tts = 0 stands for generate_audio raising.
Step2EndingOnline ==
    /\ pc = "s2_ending"
    /\ ~offline
    /\ IF PosterResolved(poster_local_path, fs)
       THEN \E tts \in {0} \cup Durations :
              /\ calls' = calls \cup {"tts"}
              /\ IF tts = 0
                 THEN /\ failed' = "ending_tts"
                      /\ yielded' =
                             <<Info(2, "Creating ending scene with movie poster..."),
                               Info(2, "Ending narration"),
                               EndingFailed>>
                      /\ UNCHANGED <<scene_assets_list, cache_data, fs>>
                 ELSE /\ failed' = ""
                      /\ yielded' =
                             <<Info(2, "Creating ending scene with movie poster..."),
                               Info(2, "Ending narration"),
                               Info(2, "Ending TTS generated"),
                               Info(2, "Ending scene created with movie poster")>>
                      /\ fs' = fs \cup {EndingAudioFile}
                      /\ scene_assets_list' = Append(scene_assets_list,
                             SceneAssets(Len(scene_assets_list), EndingAudioFile, tts,
                                         NoPath, poster_local_path, TRUE))
                      /\ cache_data' = [cache_data EXCEPT !.ending_scene =
                             <<[audio_path |-> EndingAudioFile, audio_duration |-> tts,
                                poster_path |-> poster_local_path]>>]
       ELSE /\ yielded' = <<Info(2, "Skipping ending scene (no poster available)")>>
            /\ failed' = ""
            /\ UNCHANGED <<scene_assets_list, cache_data, fs, calls>>
    /\ pc' = "s3_begin"
    /\ UNCHANGED <<offline, damage, disk, script, poster_local_path,
                   final_video_path, scene_pos, fetches, futures, audio_result,
                   video_result, status_messages, asset_pos, cumulative_offset,
                   applied_offset, all_words, subtitle_path, cache_writes,
                   online_result, saved_doc, sideVars>>

\* ---------------------------------------------------------------- stage 3
\* pipeline.py 553-556
Step3Begin ==
    /\ pc = "s3_begin"
    /\ yielded' = <<Info(3, "Transcribing audio with Whisper for word timestamps...")>>
    /\ all_words' = <<>>
    /\ cumulative_offset' = 0
    /\ failed' = ""
    /\ asset_pos' = 1
    /\ pc' = "s3"
    /\ UNCHANGED <<offline, damage, disk, fs, cache_data, script, poster_local_path,
                   scene_assets_list, final_video_path, scene_pos, fetches, futures,
                   audio_result, video_result, status_messages, applied_offset,
                   subtitle_path, cache_writes, calls, online_result, saved_doc, sideVars>>

\* What whisper_transcribe can return for an audio of the given duration:
\* no word, or a word from its start and a word at its very end (scene-local
\* seconds, starts non-decreasing and within the audio).
Transcriptions(duration) ==
    {<<>>,
     <<[start |-> 0, end |-> duration], [start |-> duration, end |-> duration]>>}

\* A mutant of Adjust: the words keep their scene-local times.
AdjustNoOffset(words, offset) == words

\* pipeline.py 565-572: the words of a scene re-based by the running offset.
Adjust(words, offset) ==
    [k \in 1..Len(words) |->
        [start |-> words[k].start + offset, end |-> words[k].end + offset]]

\* A mutant of WhisperFailed: the failure is reported as an ordinary event.
WhisperFailedNotFlagged == Info(3, "Whisper transcription failed for scene")

\* The event of the except clause of the transcription loop, pipeline.py 592-597.
WhisperFailed == Error(3, "Whisper transcription failed for scene")

\* A mutant of StoredWordTimestamps: the words are kept as transcribed.
StoredWordTimestampsLocal(words, offset) == words

\* `asset.word_timestamps = adjusted_words`, pipeline.py 564-573 and 589: the
\* list kept on the asset is the one that carries the offset.
StoredWordTimestamps(words, offset) == Adjust(words, offset)

\* One iteration of the transcription loop, pipeline.py 558-597.
\* `cumulative_offset += asset.audio_duration` (line 590) is inside the try
\* block, after the call that may raise.
Step3Transcribe ==
    /\ pc = "s3"
    /\ asset_pos <= Len(scene_assets_list)
    /\ applied_offset' = Append(applied_offset, cumulative_offset)
    /\ LET asset == scene_assets_list[asset_pos]
       IN  \/ \E words \in Transcriptions(asset.audio_duration) :
                /\ yielded' = <<Info(3, "Transcribing scene")>>
                /\ failed' = ""
                /\ scene_assets_list' = [scene_assets_list EXCEPT
                       ![asset_pos].word_timestamps =
                           StoredWordTimestamps(words, cumulative_offset)]
                /\ all_words' = all_words \o Adjust(words, cumulative_offset)
                /\ cumulative_offset' = cumulative_offset + asset.audio_duration
           \/ /\ yielded' = <<Info(3, "Transcribing scene"), WhisperFailed>>
              /\ failed' = "whisper"
              /\ UNCHANGED <<scene_assets_list, all_words, cumulative_offset>>
    /\ asset_pos' = asset_pos + 1
    /\ UNCHANGED <<pc, offline, damage, disk, fs, cache_data, script,
                   poster_local_path, final_video_path, scene_pos, fetches, futures,
                   audio_result, video_result, status_messages, subtitle_path,
                   cache_writes, calls, online_result, saved_doc, sideVars>>

\* pipeline.py 599-602
Step3Done ==
    /\ pc = "s3"
    /\ asset_pos > Len(scene_assets_list)
    /\ yielded' = <<Info(3, "Transcription complete")>>
    /\ failed' = ""
    /\ pc' = "s4"
    /\ UNCHANGED <<offline, damage, disk, fs, cache_data, script, poster_local_path,
                   scene_assets_list, final_video_path, scene_pos, fetches, futures,
                   audio_result, video_result, status_messages, asset_pos,
                   cumulative_offset, applied_offset, all_words, subtitle_path,
                   cache_writes, calls, online_result, saved_doc, sideVars>>

\* ---------------------------------------------------------------- stage 4
\* A mutant of SubtitlesFailed: the event is not flagged as an error.
SubtitlesFailedNotFlagged == Info(4, "Failed to generate subtitles")

\* The event of the except clause of stage 4, pipeline.py 618-623.
SubtitlesFailed == Error(4, "Failed to generate subtitles")

\* pipeline.py 607-624; generate_karaoke_subtitles raises ValueError when
\* the segments hold no word (subtitles.py 70-74).
Step4Subtitles ==
    /\ pc = "s4"
    /\ IF all_words = <<>>
       THEN /\ yielded' = <<Info(4, "Generating karaoke subtitles..."),
                                     SubtitlesFailed>>
            /\ subtitle_path' = FALSE
            /\ failed' = "subtitles"
       ELSE /\ yielded' = <<Info(4, "Generating karaoke subtitles..."),
                                     Info(4, "Subtitles generated")>>
            /\ subtitle_path' = TRUE
            /\ failed' = ""
    /\ pc' = "s5"
    /\ UNCHANGED <<offline, damage, disk, fs, cache_data, script, poster_local_path,
                   scene_assets_list, final_video_path, scene_pos, fetches, futures,
                   audio_result, video_result, status_messages, asset_pos,
                   cumulative_offset, applied_offset, all_words, cache_writes, calls,
                   online_result, saved_doc, sideVars>>

\* ---------------------------------------------------------------- stage 5
\* pipeline.py 629-680.  music: the script names no music file, or the file
\* is found, or it is missing; ffmpeg: check_ffmpeg(); rendered: whether
\* render_from_scenes returns or raises.
MusicEvents(music) ==
    IF music = "found" THEN <<Info(5, "Using background music")>>
    ELSE IF music = "missing" THEN <<Info(5, "Music file not found")>>
    ELSE <<>>

\* pipeline.py 629-644
Step5Begin ==
    /\ pc = "s5"
    /\ \E music \in {"none", "found", "missing"} :
          yielded' = <<Info(5, "Rendering final video...")>> \o MusicEvents(music)
    /\ failed' = ""
    /\ pc' = "s5_render"
    /\ UNCHANGED <<offline, damage, disk, fs, cache_data, script, poster_local_path,
                   scene_assets_list, final_video_path, scene_pos, fetches, futures,
                   audio_result, video_result, status_messages, asset_pos,
                   cumulative_offset, applied_offset, all_words, subtitle_path,
                   cache_writes, calls, online_result, saved_doc, sideVars>>

\* pipeline.py 646-680
Step5Render ==
    /\ pc = "s5_render"
    /\ \E ffmpeg \in BOOLEAN, rendered \in BOOLEAN :
          IF ~ffmpeg
          THEN /\ yielded' = <<Error(5, "FFmpeg not installed.")>>
               /\ failed' = "ffmpeg"
               /\ Return("")
          ELSE IF ~rendered
          THEN /\ yielded' = <<Info(5, "Concatenating scenes and mixing audio..."),
                               Error(5, "Rendering failed")>>
               /\ failed' = "renderer"
               /\ Return("")
          ELSE /\ yielded' = <<Info(5, "Concatenating scenes and mixing audio..."),
                               Info(5, "Video rendered successfully")>>
               /\ failed' = ""
               /\ IF offline
                  THEN Return("final.mp4")
                  ELSE pc' = "save" /\ UNCHANGED final_video_path
    /\ UNCHANGED <<offline, damage, disk, fs, cache_data, script, poster_local_path,
                   scene_assets_list, scene_pos, fetches, futures, audio_result,
                   video_result, status_messages, asset_pos, cumulative_offset,
                   applied_offset, all_words, subtitle_path, cache_writes, calls,
                   online_result, saved_doc, sideVars>>

\* `if not self.offline: self._save_cache(...)`, pipeline.py 676-680 and
\* 161-167: open(cache_path, 'w') truncates the file, json.dump writes the
\* document; when the write raises (OSError, a value json cannot encode) the
\* outer handler of run() reports it and the truncated file stays.
SaveCache ==
    /\ pc = "save"
    /\ cache_writes' = cache_writes + 1
    /\ \E written \in BOOLEAN :
          IF written
          THEN /\ disk' = CompleteFile(cache_data)
               /\ Return("final.mp4")
               /\ online_result' = Selection(scene_assets_list)
               /\ saved_doc' = cache_data
               /\ UNCHANGED yielded
               /\ failed' = ""
          ELSE /\ disk' = TruncatedFile
               /\ yielded' = <<UnexpectedError>>
               /\ failed' = "save_cache"
               /\ Return("")
               /\ UNCHANGED <<online_result, saved_doc>>
    /\ UNCHANGED <<offline, damage, fs, cache_data, script, poster_local_path,
                   scene_assets_list, scene_pos, fetches, futures, audio_result,
                   video_result, status_messages, asset_pos, cumulative_offset,
                   applied_offset, all_words, subtitle_path, calls, sideVars>>

\* ------------------------------------------------- between two runs
\* The files a cache document refers to.
Referenced(doc) ==
    {doc.poster_path} \cup
    {doc.scene_assets[n].audio_path : n \in DOMAIN doc.scene_assets} \cup
    {doc.scene_assets[n].video_path : n \in DOMAIN doc.scene_assets} \cup
    {doc.ending_scene[k].audio_path : k \in DOMAIN doc.ending_scene} \cup
    {doc.ending_scene[k].poster_path : k \in DOMAIN doc.ending_scene}

\* The job directory changes between runs: a file the cache refers to is
\* removed ...
RemoveFile(f) ==
    /\ pc = "idle"
    /\ damage < MaxDamage
    /\ f \in fs
    /\ disk.state = "complete"
    /\ f \in Referenced(disk.doc)
    /\ fs' = fs \ {f}
    /\ damage' = damage + 1
    /\ UNCHANGED <<pc, offline, disk, cache_data, script, poster_local_path,
                   scene_assets_list, yielded, failed, final_video_path, scene_pos, fetches,
                   futures, audio_result, video_result, status_messages, asset_pos,
                   cumulative_offset, applied_offset, all_words, subtitle_path,
                   cache_writes, calls, online_result, saved_doc, sideVars>>

\* ... or the cache document lacks a key (a document of another schema
\* version, an edited file).
WithoutKey(doc, key) ==
    CASE key = "movie_details" -> [doc EXCEPT !.movie_details = NoDetails]
      [] key = "video_script" -> [doc EXCEPT !.video_script = 0]
      [] key = "ending_scene" -> [doc EXCEPT !.ending_scene = <<>>]
      [] OTHER -> doc

WithoutScene(doc, n) ==
    [doc EXCEPT !.scene_assets = [m \in DOMAIN doc.scene_assets \ {n} |-> doc.scene_assets[m]]]

LoseKey(doc2) ==
    /\ pc = "idle"
    /\ damage < MaxDamage
    /\ disk.state = "complete"
    /\ doc2 # disk.doc
    /\ disk' = CompleteFile(doc2)
    /\ damage' = damage + 1
    /\ UNCHANGED <<pc, offline, fs, cache_data, script, poster_local_path,
                   scene_assets_list, yielded, failed, final_video_path, scene_pos, fetches,
                   futures, audio_result, video_result, status_messages, asset_pos,
                   cumulative_offset, applied_offset, all_words, subtitle_path,
                   cache_writes, calls, online_result, saved_doc, sideVars>>

AllFiles ==
    {AudioFile(n) : n \in 0..NumScenes} \cup {VideoFile(n) : n \in 0..NumScenes}
        \cup {PosterFile, EndingAudioFile}

Next ==
    \/ \E off \in BOOLEAN : StartRun(off)
    \/ RunReturned
    \/ Step1Online
    \/ Step1Offline
    \/ Step1ScriptOnline
    \/ Step1ScriptOffline
    \/ Step2Begin
    \/ Step2SceneOffline
    \/ Step2Submit
    \/ \E t \in fetches, d \in Durations : TtsReturns(t, d)
    \/ \E t \in fetches : VideoReturns(t)
    \/ \E t \in fetches : TaskRaises(t)
    \/ Step2Join
    \/ Step2Done
    \/ Step2EndingOffline
    \/ Step2EndingOnline
    \/ Step3Begin
    \/ Step3Transcribe
    \/ Step3Done
    \/ Step4Subtitles
    \/ Step5Begin
    \/ Step5Render
    \/ SaveCache
    \/ \E f \in AllFiles : RemoveFile(f)
    \/ \E key \in {"movie_details", "video_script", "ending_scene"} :
          LoseKey(WithoutKey(disk.doc, key))
    \/ \E n \in 0..(NumScenes - 1) : LoseKey(WithoutScene(disk.doc, n))

Spec == Init /\ [][Next]_vars

\* ================================================================ SpecNorm
\* renderer.py: durations are counted in frames at FPS.
FPS == 30
\* Clips handed to one _concat_media call.
MaxClips == 3
\* Durations in tenths of a second: narration lengths and lengths of the
\* downloaded footage.
TargetTenths == {32, 40, 55}
SourceTenths == {20, 60}

Frames(tenths) == (tenths * FPS) \div 10

Min(a, b) == IF a <= b THEN a ELSE b
Abs(a) == IF a >= 0 THEN a ELSE -a

RECURSIVE Sum(_)
Sum(seq) == IF seq = <<>> THEN 0 ELSE seq[1] + Sum(Tail(seq))

\* _normalize_video (renderer.py 584-627): ffmpeg re-encodes the one input and
\* `-t target_duration` stops the output at the target; the input is read
\* once (no -stream_loop), so the output ends where the input ends when that
\* comes first.
NormalizeVideo(source, target) == Min(source, target)

\* SILENT_POSTER_DURATION of renderer.py, in seconds.
SILENT_POSTER_DURATION == 1

\* _create_video_from_image (renderer.py 112-173): the image is looped and
\* `-t duration` ends the clip; add_ken_burns selects the zoompan filter.
CreateVideoFromImage(duration, add_ken_burns, scene_is_ending, is_tail) ==
    [length |-> duration, ken_burns |-> add_ken_burns,
     is_ending_scene |-> scene_is_ending, tail |-> is_tail]

\* A mutant of TotalDuration: the voice is the reference in every case.
TotalDurationVoiceOnly(silent_segment, video_duration, voice_duration) ==
    voice_duration

\* renderer.py 549-564: the duration handed to the final render.
TotalDuration(silent_segment, video_duration, voice_duration) ==
    IF silent_segment THEN video_duration ELSE voice_duration

\* renderer.py 555-562: is the mismatch warning logged?
MismatchWarning(silent_segment, video_duration, voice_duration) ==
    ~silent_segment /\ Abs(video_duration - voice_duration) > FPS

\* _render_final_with_ducking (renderer.py 849-907): the audio mapped to the
\* output is the voice alone, or amix of voice and ducked music with
\* duration=first, which ends with its first input, the voice; `-t duration`
\* cuts what is longer.
OutputAudio(voice_duration, duration) == Min(voice_duration, duration)
OutputVideo(video_duration, duration) == Min(video_duration, duration)

\* The inputs of one render: the scenes with the length of their footage and
\* their audio_duration, an ending scene with a poster (ending = its
\* audio_duration in tenths, 0 = none), and whether the music file exists.
InitNorm ==
    /\ InitRun
    /\ cstore = CacheOff
    /\ subs = SubsOff
    /\ stock = StockOff
    /\ app = AppOff
    /\ batch = BatchOff
    /\ \E n \in 1..MaxClips, ending \in {0} \cup TargetTenths, music \in BOOLEAN :
         \E sources \in [1..n -> SourceTenths], targets \in [1..n -> TargetTenths] :
            norm = [phase |-> "list",
                    scenes |-> [k \in 1..n |->
                                  [source |-> Frames(sources[k]),
                                   target |-> Frames(targets[k]),
                                   is_ending_scene |-> FALSE]]
                               \o (IF ending = 0 THEN <<>>
                                   ELSE <<[source |-> 0, target |-> Frames(ending),
                                           is_ending_scene |-> TRUE]>>),
                    music |-> music,
                    images |-> <<>>, silent_segment |-> FALSE,
                    sources |-> <<>>, targets |-> <<>>, audios |-> <<>>,
                    vf |-> <<>>, af |-> <<>>,
                    normalized |-> <<>>,
                    video_duration |-> 0, voice_duration |-> 0,
                    total_duration |-> 0, warned |-> FALSE,
                    subtitle_path |-> "none", filters |-> "ass",
                    ass_filter |-> FALSE,
                    out_video |-> 0, out_audio |-> 0, out_music |-> 0]

\* The entry of videos.txt for the silent poster segment (renderer.py 519-521);
\* the entries of the scenes are their positions in scene_assets.
SilentSegment == 0

\* A mutant of AudioDurations: no target is recorded for a poster scene.
AudioDurationsFootageOnly(durations, scene) ==
    IF scene.is_ending_scene THEN durations ELSE Append(durations, scene.target)

\* renderer.py 505: the scene's audio_duration is appended to audio_durations.
AudioDurations(durations, scene) == Append(durations, scene.target)

\* One iteration of the loop over scene_assets (renderer.py 480-505): a scene
\* with a poster gets a clip made from the image, with add_ken_burns=True
\* (line 489); the clip and the audio are listed.
ListScene ==
    /\ norm.phase = "list"
    /\ Len(norm.audios) < Len(norm.scenes)
    /\ LET scene == norm.scenes[Len(norm.audios) + 1]
           clip == CreateVideoFromImage(scene.target, TRUE, scene.is_ending_scene, FALSE)
       IN  norm' = [norm EXCEPT
              !.images = IF scene.is_ending_scene THEN Append(@, clip) ELSE @,
              !.sources = Append(@, IF scene.is_ending_scene THEN clip.length
                                    ELSE scene.source),
              !.targets = AudioDurations(@, scene),
              !.vf = Append(@, Len(norm.audios) + 1),
              !.af = Append(@, Len(norm.audios) + 1),
              !.audios = Append(@, scene.target)]
    /\ UNCHANGED <<runVars, cstore, subs, stock, app, batch>>

\* renderer.py 507-522: with an ending scene, a silent clip of the poster
\* (add_ken_burns=False) is appended to the video list only.
SilentTail ==
    /\ norm.phase = "list"
    /\ Len(norm.audios) = Len(norm.scenes)
    /\ LET has_ending == \E k \in 1..Len(norm.scenes) : norm.scenes[k].is_ending_scene
           clip == CreateVideoFromImage(SILENT_POSTER_DURATION * FPS, FALSE, FALSE, TRUE)
       IN  norm' = [norm EXCEPT
              !.phase = "normalize",
              !.silent_segment = has_ending,
              !.images = IF has_ending THEN Append(@, clip) ELSE @,
              !.sources = IF has_ending THEN Append(@, clip.length) ELSE @,
              !.vf = IF has_ending THEN Append(@, SilentSegment) ELSE @,
              !.targets = IF has_ending THEN Append(@, SILENT_POSTER_DURATION * FPS)
                          ELSE @]
    /\ UNCHANGED <<runVars, cstore, subs, stock, app, batch>>

\* One iteration of the normalisation loop of _concat_media (renderer.py 669-682).
NormalizeNext ==
    /\ norm.phase = "normalize"
    /\ Len(norm.normalized) < Len(norm.sources)
    /\ LET i == Len(norm.normalized) + 1
       IN  norm' = [norm EXCEPT !.normalized =
                       Append(@, NormalizeVideo(norm.sources[i], norm.targets[i]))]
    /\ UNCHANGED <<runVars, cstore, subs, stock, app, batch>>

\* The stream-copy concat of the normalized clips (renderer.py 684-711).
ConcatVideo ==
    /\ norm.phase = "normalize"
    /\ Len(norm.normalized) = Len(norm.sources)
    /\ norm' = [norm EXCEPT !.phase = "concat_audio",
                            !.video_duration = Sum(norm.normalized)]
    /\ UNCHANGED <<runVars, cstore, subs, stock, app, batch>>

\* The concat of the voiceovers (renderer.py 535-541).
ConcatAudio ==
    /\ norm.phase = "concat_audio"
    /\ norm' = [norm EXCEPT !.phase = "policy", !.voice_duration = Sum(norm.audios)]
    /\ UNCHANGED <<runVars, cstore, subs, stock, app, batch>>

\* The duration policy of render_from_scenes (renderer.py 543-564).
DurationPolicy ==
    /\ norm.phase = "policy"
    /\ norm' = [norm EXCEPT
                  !.phase = "final",
                  !.warned = MismatchWarning(norm.silent_segment, norm.video_duration,
                                             norm.voice_duration),
                  !.total_duration = TotalDuration(norm.silent_segment,
                                                   norm.video_duration,
                                                   norm.voice_duration)]
    /\ UNCHANGED <<runVars, cstore, subs, stock, app, batch>>

\* A mutant of UseSubtitles: the filter list of ffmpeg is not asked.
UseSubtitlesUnchecked(subtitle, filters) == subtitle = "exists"

\* use_subtitles (renderer.py 806-824).  subtitle: no subtitle_path was given,
\* or the path names no file, or the file exists; filters: the output of
\* `ffmpeg -filters` lists the ass filter, or does not, or running it raised
\* (the bare except leaves use_subtitles False).
UseSubtitles(subtitle, filters) ==
    /\ subtitle = "exists"
    /\ filters = "ass"

\* _render_final_with_ducking (renderer.py 566-575, 751-917); out_music is
\* the stretch of the output audio that carries the music, ass_filter whether
\* the video filter burns the subtitle file in (renderer.py 826-843), and a
\* return code other than 0 of the render raises (renderer.py 913-917).
RenderFinal ==
    /\ norm.phase = "final"
    /\ \E subtitle \in {"none", "missing", "exists"},
          filters \in {"ass", "no_ass", "raises"},
          returncode \in {0, 1} :
         LET audio == OutputAudio(norm.voice_duration, norm.total_duration)
         IN  norm' = [norm EXCEPT
                !.phase = IF returncode = 0 THEN "rendered" ELSE "render_failed",
                !.subtitle_path = subtitle,
                !.filters = filters,
                !.ass_filter = UseSubtitles(subtitle, filters),
                !.out_video = IF returncode = 0
                              THEN OutputVideo(norm.video_duration, norm.total_duration)
                              ELSE 0,
                !.out_audio = IF returncode = 0 THEN audio ELSE 0,
                !.out_music = IF returncode = 0 /\ norm.music THEN audio ELSE 0]
    /\ UNCHANGED <<runVars, cstore, subs, stock, app, batch>>

NextNorm ==
    \/ ListScene
    \/ SilentTail
    \/ NormalizeNext
    \/ ConcatVideo
    \/ ConcatAudio
    \/ DurationPolicy
    \/ RenderFinal

SpecNorm == InitNorm /\ [][NextNorm]_vars

\* =============================================================== SpecCache
\* Cache documents that can be saved, and the number of write() calls
\* json.dump needs for one document.
NumDocs == 2
DocChunks == 2

\* A file holding the first `len` chunks of document `doc`.
Content(doc, len) == [doc |-> doc, len |-> len]
Missing == Content(0, 0)

\* _load_cache (pipeline.py 150-159) on a file: the document, or 0 for None
\* when the file does not exist or json.load raises on what it holds.
LoadFile(file) == IF file.doc # 0 /\ file.len = DocChunks THEN file.doc ELSE 0

\* The except clause of _load_cache names json.JSONDecodeError and IOError
\* (pipeline.py 157).  A file whose bytes end inside a multi-byte character
\* (json.dump writes with ensure_ascii=False, pipeline.py 166) makes the read
\* raise UnicodeDecodeError, which is neither.
LoadRaises(file, torn) == LoadFile(file) = 0 /\ torn

\* A job whose cache file holds document `old` (0 = no file yet) and a call
\* _save_cache(movie_name, new).
InitCache ==
    /\ InitRun
    /\ norm = NormOff
    /\ subs = SubsOff
    /\ stock = StockOff
    /\ app = AppOff
    /\ batch = BatchOff
    /\ \E old \in 0..NumDocs, new \in 1..NumDocs :
          cstore = [phase |-> "call", old |-> old, new |-> new,
                    file |-> IF old = 0 THEN Missing ELSE Content(old, DocChunks),
                    torn |-> FALSE, loads |-> 0, loaded |-> 0,
                    load_raised |-> FALSE]

\* open(cache_path, 'w') (pipeline.py 165): the file is created or truncated.
CacheOpen ==
    /\ cstore.phase = "call"
    /\ cstore' = [cstore EXCEPT !.phase = "open", !.file = Content(cstore.new, 0)]
    /\ UNCHANGED <<runVars, norm, subs, stock, app, batch>>

\* json.dump (pipeline.py 166) hands the document to the file chunk by chunk.
CacheWrite ==
    /\ cstore.phase = "open"
    /\ cstore.file.len < DocChunks
    /\ cstore' = [cstore EXCEPT !.file.len = @ + 1]
    /\ UNCHANGED <<runVars, norm, subs, stock, app, batch>>

\* The `with` block is left and the file closed.
CacheClose ==
    /\ cstore.phase = "open"
    /\ cstore.file.len = DocChunks
    /\ cstore' = [cstore EXCEPT !.phase = "closed"]
    /\ UNCHANGED <<runVars, norm, subs, stock, app, batch>>

\* The process dies, or a write raises, while the file is open; torn: the
\* bytes that reached the file end inside a character.
CacheCrash ==
    /\ cstore.phase = "open"
    /\ \E torn \in (IF cstore.file.len < DocChunks THEN BOOLEAN ELSE {FALSE}) :
          cstore' = [cstore EXCEPT !.phase = "crashed", !.torn = torn]
    /\ UNCHANGED <<runVars, norm, subs, stock, app, batch>>

\* Another pipeline object, or the next run after a crash, calls _load_cache.
CacheLoad ==
    /\ cstore.loads < 1
    /\ cstore' = [cstore EXCEPT
          !.loads = @ + 1,
          !.loaded = LoadFile(cstore.file),
          !.load_raised = LoadRaises(cstore.file, cstore.torn)]
    /\ UNCHANGED <<runVars, norm, subs, stock, app, batch>>

NextCache == CacheOpen \/ CacheWrite \/ CacheClose \/ CacheCrash \/ CacheLoad

SpecCache == InitCache /\ [][NextCache]_vars


\* ================================================================ SpecSubs
\* Words handed to one generate_karaoke_subtitles call.
MaxWords == 2
\* Word times in tenths of a millisecond (0.0001 s): the float seconds of
\* Whisper at a resolution finer than the millisecond of the events.
WordTimes == {0, 999, 1000, 2005}
\* `if end_ms - start_ms < 100` (subtitles.py 200-201).
MinEventMs == 100

\* int(seconds * 1000) for a time in tenths of a millisecond.
ToMs(t) == t \div 10

\* A mutant of EventEnd: the end of the word is taken as it is.
EventEndUnclamped(start_ms, end_ms) == end_ms

\* subtitles.py 199-201: an event lasts at least MinEventMs.
EventEnd(start_ms, end_ms) ==
    IF end_ms - start_ms < MinEventMs THEN start_ms + MinEventMs ELSE end_ms

\* Word texts as sequences of characters: "A" an upper-case letter, "a" a
\* lower-case letter, "!" a punctuation character, " " white space.
Texts == {<<" ">>, <<"A">>, <<"!", "a", "!">>, <<"a", "!", "a">>}
\* words_per_line of a call; the pipeline asks for 4 (pipeline.py 615).
WordsPerLine == {1, 2, 4}

\* str.lower() on one character.
LowerChar(c) == IF c = "A" THEN "a" ELSE c
Lower(text) == [k \in 1..Len(text) |-> LowerChar(text[k])]

\* str.strip(chars): characters of the set are removed from both ends only.
RECURSIVE StripLeft(_, _)
StripLeft(text, chars) ==
    IF text # <<>> /\ text[1] \in chars THEN StripLeft(Tail(text), chars) ELSE text

RECURSIVE StripRight(_, _)
StripRight(text, chars) ==
    IF text # <<>> /\ text[Len(text)] \in chars
    THEN StripRight(SubSeq(text, 1, Len(text) - 1), chars)
    ELSE text

Strip(text, chars) == StripRight(StripLeft(text, chars), chars)

\* A mutant of CleanWord: the case of the word is kept.
CleanWordKeepCase(text) == Strip(text, {"!"})

\* `word_info["word"].lower().strip(string.punctuation)`, subtitles.py 204.
CleanWord(text) == Strip(Lower(text), {"!"})

\* _create_hormozi_style (subtitles.py 94-132): the one style of the file.
StyleName == "Hormozi"

\* The SSAEvent built for one word (subtitles.py 194-214).
SSAEvent(word) ==
    LET start_ms == ToMs(word.start)
        end_ms == ToMs(word.end)
    IN  [start |-> start_ms, end |-> EventEnd(start_ms, end_ms),
         text |-> CleanWord(word.text), style |-> StyleName]

\* _create_karaoke_events (subtitles.py 172-214) for one group: the loop
\* over the group appends one event per word.
KaraokeEvents(group) == [k \in 1..Len(group) |-> SSAEvent(group[k])]

\* A mutant of ExtractedWord: the text is not looked at.
ExtractedWordAnyText(item) ==
    <<[start |-> item.start, end |-> item.end, text |-> Strip(item.text, {" "})]>>

\* _extract_words (subtitles.py 135-169) for one item of the input, either a
\* word of a segment or a segment without words, whose text then stands for
\* one word with the times of the segment: the text is stripped of white
\* space and the item is dropped when nothing is left.
ExtractedWord(item) ==
    LET text == Strip(item.text, {" "})
    IN  IF text = <<>> THEN <<>>
        ELSE <<[start |-> item.start, end |-> item.end, text |-> text]>>

RECURSIVE ExtractWords(_)
ExtractWords(items) ==
    IF items = <<>> THEN <<>>
    ELSE ExtractedWord(items[1]) \o ExtractWords(Tail(items))

\* `all_words[i:i + words_per_line] for i in range(0, len, words_per_line)`,
\* subtitles.py 76-80.
RECURSIVE WordGroups(_, _)
WordGroups(words, n) ==
    IF words = <<>> THEN <<>>
    ELSE IF Len(words) <= n THEN <<words>>
    ELSE <<SubSeq(words, 1, n)>> \o WordGroups(SubSeq(words, n + 1, Len(words)), n)

\* The items a call can be given: a plain word with any times (an end before
\* its start included), or any text at fixed times, as a word of a segment
\* or as the text of a segment that has no words.
InputItems ==
    [start : WordTimes, end : WordTimes, text : {<<"a">>}, kind : {"word"}]
      \cup [start : {0}, end : {1000}, text : Texts, kind : {"word", "segment"}]

InitSubs ==
    /\ InitRun
    /\ norm = NormOff
    /\ cstore = CacheOff
    /\ stock = StockOff
    /\ app = AppOff
    /\ batch = BatchOff
    /\ \E n \in 0..MaxWords, words_per_line \in WordsPerLine :
         \E input \in [1..n -> InputItems] :
            subs = [phase |-> "extract", input |-> input,
                    words_per_line |-> words_per_line, all_words |-> <<>>,
                    word_groups |-> <<>>, groups_done |-> 0,
                    events |-> <<>>, saved |-> <<>>]

\* subtitles.py 70-80
SubsExtract ==
    /\ subs.phase = "extract"
    /\ LET words == ExtractWords(subs.input)
       IN  subs' = [subs EXCEPT
              !.all_words = words,
              !.word_groups = WordGroups(words, subs.words_per_line),
              !.phase = IF words = <<>> THEN "raised" ELSE "events"]
    /\ UNCHANGED <<runVars, norm, cstore, stock, app, batch>>

\* One iteration of `for group in word_groups` (subtitles.py 83-84).
SubsCreateEvent ==
    /\ subs.phase = "events"
    /\ subs.groups_done < Len(subs.word_groups)
    /\ subs' = [subs EXCEPT
           !.groups_done = @ + 1,
           !.events = @ \o KaraokeEvents(subs.word_groups[subs.groups_done + 1])]
    /\ UNCHANGED <<runVars, norm, cstore, stock, app, batch>>

\* subs.save (subtitles.py 86-91)
SubsSave ==
    /\ subs.phase = "events"
    /\ subs.groups_done = Len(subs.word_groups)
    /\ subs' = [subs EXCEPT !.phase = "saved", !.saved = subs.events]
    /\ UNCHANGED <<runVars, norm, cstore, stock, app, batch>>

NextSubs == SubsExtract \/ SubsCreateEvent \/ SubsSave

SpecSubs == InitSubs /\ [][NextSubs]_vars

\* =============================================================== SpecStock
\* stock_media.download_video.  Queries of one call.
MaxQueries == 2
\* stock_media.py 29
MIN_VIDEO_DURATION == 5

\* A video of a search result: its orientation, its duration in seconds and
\* its video_files (none, one without a link, one with a link).
Videos == [portrait : BOOLEAN, duration : {5, 6}, files : {"none", "no_link", "link"}]

\* What _search_videos gives for one query: PexelsAPIError, or the list of
\* videos of the response.
SearchResults ==
    [status : {"error"}, videos : {<<>>}]
      \cup [status : {"ok"}, videos : {<<>>} \cup {<<v>> : v \in Videos}]

\* _filter_portrait_videos (stock_media.py 142-163)
IsPortrait(v) == v.portrait
FilterPortraitVideos(videos) == SelectSeq(videos, IsPortrait)

\* `v.get("duration", 0) > MIN_VIDEO_DURATION`, stock_media.py 241-244
LongEnough(v) == v.duration > MIN_VIDEO_DURATION

\* The checks of one loop iteration before the download (stock_media.py
\* 224-266): the reason the query fails, or "" when a file is downloaded.
QueryFailure(result) ==
    IF result.status = "error" THEN "API error"
    ELSE IF result.videos = <<>> THEN "No videos found"
    ELSE LET portrait_videos == FilterPortraitVideos(result.videos)
             candidate_videos == IF portrait_videos # <<>> THEN portrait_videos
                                 ELSE result.videos
             duration_filtered == SelectSeq(candidate_videos, LongEnough)
         IN  IF duration_filtered = <<>> THEN "No videos with duration > 5s"
             ELSE IF duration_filtered[1].files = "none"
                  THEN "No downloadable video files"
             ELSE IF duration_filtered[1].files = "no_link"
                  THEN "Video file has no download link"
             ELSE ""

InitStock ==
    /\ InitRun
    /\ norm = NormOff
    /\ cstore = CacheOff
    /\ subs = SubsOff
    /\ app = AppOff
    /\ batch = BatchOff
    /\ \E n \in 0..MaxQueries, api_key \in BOOLEAN,
          fallback \in {"no_dir", "no_files", "files"} :
         \E queries \in [1..n -> SearchResults] :
            stock = [phase |-> "loop", queries |-> queries, api_key |-> api_key,
                     fallback |-> fallback, pos |-> 1, failed_queries |-> <<>>,
                     path |-> "", metadata_fallback |-> FALSE, error |-> ""]

\* One iteration of `for query in queries` (stock_media.py 223-291).
\* _search_videos asks _get_headers for the key inside a try that catches
\* RequestException only, so the ValueError of a missing PEXELS_API_KEY
\* (stock_media.py 54-58) leaves download_video; _download_file raises
\* RequestException when the transfer fails, which the loop catches, and
\* OSError when the file cannot be written, which it does not.
StockQuery ==
    /\ stock.phase = "loop"
    /\ stock.pos <= Len(stock.queries)
    /\ IF ~stock.api_key
       THEN stock' = [stock EXCEPT !.phase = "raised", !.error = "ValueError"]
       ELSE LET reason == QueryFailure(stock.queries[stock.pos])
            IN  IF reason # ""
                THEN stock' = [stock EXCEPT
                        !.failed_queries = Append(@, reason), !.pos = @ + 1]
                ELSE \E download \in {"ok", "request_error", "os_error"} :
                        stock' =
                          IF download = "ok"
                          THEN [stock EXCEPT !.phase = "returned", !.path = "output"]
                          ELSE IF download = "request_error"
                          THEN [stock EXCEPT
                                  !.failed_queries = Append(@, "Network error"),
                                  !.pos = @ + 1]
                          ELSE [stock EXCEPT !.phase = "raised", !.error = "OSError"]
    /\ UNCHANGED <<runVars, norm, cstore, subs, app, batch>>

\* _use_local_fallback (stock_media.py 293-349), reached when the loop ends.
StockFallback ==
    /\ stock.phase = "loop"
    /\ stock.pos > Len(stock.queries)
    /\ stock' =
         IF stock.fallback = "files"
         THEN [stock EXCEPT !.phase = "returned", !.path = "fallback",
                            !.metadata_fallback = TRUE]
         ELSE [stock EXCEPT !.phase = "raised", !.error = "VideoNotFoundError"]
    /\ UNCHANGED <<runVars, norm, cstore, subs, app, batch>>

NextStock == StockQuery \/ StockFallback

SpecStock == InitStock /\ [][NextStock]_vars

\* ================================================================= SpecApp
\* app.run_pipeline_with_logging pulling the events of run() one at a time.
\* The body of run() is laid out as the sequence of its steps: the yields,
\* and between them the calls, the list appends and the return.
NoEvent == PipelineStatus(0, "", FALSE)
Item(op, name, event) == [op |-> op, name |-> name, event |-> event]
Yield(event) == Item("yield", "", event)
Call(name) == Item("call", name, NoEvent)

\* Stage 1 of a run that finds its movie, plot and year (pipeline.py
\* 268-379); poster: the poster was downloaded, or is in the cache.
AppStage1(off, poster) ==
    IF off
    THEN <<Yield(Info(1, "Fetching movie data...")),
           Call("load_cache"),
           Yield(Info(1, "Using cached movie details")),
           Yield(Info(1, "Found"))>>
           \o (IF poster THEN <<Yield(Info(1, "Using cached poster"))>> ELSE <<>>)
           \o <<Yield(Info(1, "Generating video script with AI...")),
                Yield(Info(1, "Using cached script")),
                Yield(Info(1, "Script generated"))>>
    ELSE <<Yield(Info(1, "Fetching movie data...")),
           Yield(Info(1, "Searching for movie")),
           Call("search_movie"),
           Call("get_movie_details"),
           Yield(Info(1, "Found")),
           Yield(Info(1, "Downloading movie poster...")),
           Call("download_poster"),
           Yield(Info(1, IF poster THEN "Poster downloaded"
                         ELSE "Could not download poster (will skip ending poster scene)")),
           Yield(Info(1, "Generating video script with AI...")),
           Call("generate_script"),
           Yield(Info(1, "Script generated"))>>

\* One iteration of the loop over script.scenes (pipeline.py 389-458); ok:
\* the scene is in the cache, or both of its fetches return; video_first:
\* the download appended its message before the TTS did.  The messages of
\* _process_scene_parallel (pipeline.py 205, 214, 219, 227-229) are yielded
\* after it has returned.
AppScene(off, ok, video_first) ==
    <<Yield(Info(2, "Processing scene"))>> \o
    (IF off
     THEN IF ok THEN <<Yield(Info(2, "Using cached assets")), Item("append", "", NoEvent)>>
          ELSE <<Yield(Error(2, "No cached data for scene"))>>
     ELSE <<Item("submit", "", NoEvent), Item("join", "", NoEvent)>> \o
          (IF ok
           THEN <<Yield(Info(2, "Generating TTS")), Yield(Info(2, "Searching Pexels"))>>
                  \o (IF video_first
                      THEN <<Yield(Info(2, "Downloaded video")), Yield(Info(2, "TTS complete"))>>
                      ELSE <<Yield(Info(2, "TTS complete")), Yield(Info(2, "Downloaded video"))>>)
                  \o <<Item("append", "", NoEvent)>>
           ELSE <<Yield(Error(2, "Failed to process scene"))>>))

RECURSIVE AppScenes(_, _, _)
AppScenes(off, scenes, video_first) ==
    IF scenes = <<>> THEN <<>>
    ELSE AppScene(off, scenes[1], video_first) \o AppScenes(off, Tail(scenes), video_first)

\* The ending scene (pipeline.py 472-548).
AppEnding(off, poster) ==
    IF off
    THEN IF poster
         THEN <<Yield(Info(2, "Loading cached ending scene...")),
                Item("append", "", NoEvent),
                Yield(Info(2, "Ending scene loaded"))>>
         ELSE <<Yield(Info(2, "No ending scene in cache"))>>
    ELSE IF poster
         THEN <<Yield(Info(2, "Creating ending scene with movie poster...")),
                Yield(Info(2, "Ending narration")),
                Call("generate_audio"),
                Yield(Info(2, "Ending TTS generated")),
                Item("append", "", NoEvent),
                Yield(Info(2, "Ending scene created with movie poster"))>>
         ELSE <<Yield(Info(2, "Skipping ending scene (no poster available)"))>>

\* Stage 3 over `assets` entries (pipeline.py 553-602); whisper_ok: the
\* transcription of the first entry returns.
RECURSIVE AppTranscribe(_, _, _)
AppTranscribe(k, assets, whisper_ok) ==
    IF k > assets THEN <<>>
    ELSE <<Yield(Info(3, "Transcribing scene")), Call("whisper_transcribe")>>
           \o (IF k = 1 /\ ~whisper_ok THEN <<Yield(WhisperFailed)>> ELSE <<>>)
           \o AppTranscribe(k + 1, assets, whisper_ok)

\* Stages 3 to 5 and the end of run() (pipeline.py 553-680); render: ffmpeg
\* is missing, or render_from_scenes raises, or it returns.
AppStages3To5(off, assets, whisper_ok, render) ==
    <<Yield(Info(3, "Transcribing audio with Whisper for word timestamps..."))>>
      \o AppTranscribe(1, assets, whisper_ok)
      \o <<Yield(Info(3, "Transcription complete")),
           Yield(Info(4, "Generating karaoke subtitles...")),
           Call("generate_karaoke_subtitles"),
           Yield(IF whisper_ok \/ assets > 1 THEN Info(4, "Subtitles generated")
                 ELSE Error(4, "Failed to generate subtitles")),
           Yield(Info(5, "Rendering final video...")),
           Call("check_ffmpeg")>>
      \o (IF render = "no_ffmpeg"
          THEN <<Yield(Error(5, "FFmpeg not installed.")), Item("return", "", NoEvent)>>
          ELSE <<Yield(Info(5, "Concatenating scenes and mixing audio...")),
                 Call("render_from_scenes")>> \o
               (IF render = "raises"
                THEN <<Yield(Error(5, "Rendering failed")), Item("return", "", NoEvent)>>
                ELSE <<Yield(Info(5, "Video rendered successfully"))>>
                       \o (IF off THEN <<>> ELSE <<Call("save_cache")>>)
                       \o <<Item("return", "final.mp4", NoEvent)>>))

\* Number of scenes the loop appends.
RECURSIVE Appended(_)
Appended(scenes) ==
    IF scenes = <<>> THEN 0
    ELSE (IF scenes[1] THEN 1 ELSE 0) + Appended(Tail(scenes))

\* run() from its first yield to its return (pipeline.py 264-680).
Program(off, poster, scenes, video_first, whisper_ok, render) ==
    AppStage1(off, poster)
      \o <<Yield(Info(2, "Processing scenes (parallel TTS + video download)..."))>>
      \o AppScenes(off, scenes, video_first)
      \o (IF Appended(scenes) = 0
          THEN <<Yield(Error(2, "No scenes were processed successfully.")),
                 Item("return", "", NoEvent)>>
          ELSE <<Yield(Info(2, "Scene processing complete"))>>
                 \o AppEnding(off, poster)
                 \o AppStages3To5(off, Appended(scenes) + (IF poster THEN 1 ELSE 0),
                                  whisper_ok, render))

\* `"complete" in status.message.lower()` (app.py 125) over the messages of
\* run(): "TTS complete for scene ..." (pipeline.py 214), "Scene processing
\* complete: ..." (466) and "Transcription complete: ..." (601).
ContainsComplete(message) ==
    message \in {"TTS complete", "Scene processing complete", "Transcription complete"}

\* app.py 124-127
StopsEarly(assets_only, status) ==
    assets_only /\ status.step = 2 /\ ContainsComplete(status.message)

\* The value run_pipeline_with_logging returns: the locals scene_assets and
\* final_video_path (app.py 105-107), set from StopIteration only (129-132).
Returned(scene_assets, final) == [scene_assets |-> scene_assets, final |-> final]

\* The exit status of main() (app.py 209-222); scene_assets is the length of
\* the returned list.
ExitCode(returned) == IF returned.scene_assets > 0 THEN 0 ELSE 1

\* A mutant of CanResume: run() goes on whether or not it is asked to.
CanResumeAlways(consumer) == TRUE

\* run() is a generator: its body runs only inside next(gen) (pipeline.py
\* 246-264, app.py 111).
CanResume(consumer) == consumer = "in_next"

InitApp ==
    /\ InitRun
    /\ norm = NormOff
    /\ cstore = CacheOff
    /\ subs = SubsOff
    /\ stock = StockOff
    /\ batch = BatchOff
    /\ \E off \in BOOLEAN, assets_only \in BOOLEAN, poster \in BOOLEAN,
          video_first \in BOOLEAN, whisper_ok \in BOOLEAN,
          render \in {"no_ffmpeg", "raises", "ok"}, n \in 1..NumScenes :
         \E scenes \in [1..n -> BOOLEAN] :
            app = [consumer |-> "holding", assets_only |-> assets_only,
                   offline |-> off,
                   program |-> Program(off, poster, scenes, video_first,
                                       whisper_ok, render),
                   ip |-> 1, running |-> {}, started |-> 0, cache_writes |-> 0,
                   list_len |-> 0, status |-> NoEvent,
                   returned |-> Returned(0, ""), exit_code |-> -1]

\* `status = next(gen)`, app.py 111
AppNext ==
    /\ app.consumer = "holding"
    /\ app' = [app EXCEPT !.consumer = "in_next"]
    /\ UNCHANGED <<runVars, norm, cstore, subs, stock, batch>>

\* run() makes a call to a collaborator, or reads or writes the cache.
GenCall ==
    /\ CanResume(app.consumer)
    /\ app.ip <= Len(app.program)
    /\ app.program[app.ip].op = "call"
    /\ app' = [app EXCEPT
          !.ip = @ + 1,
          !.started = @ + 1,
          !.cache_writes = IF app.program[app.ip].name = "save_cache" THEN @ + 1 ELSE @]
    /\ UNCHANGED <<runVars, norm, cstore, subs, stock, batch>>

\* executor.submit of the two fetches of a scene (pipeline.py 232-236)
GenSubmit ==
    /\ CanResume(app.consumer)
    /\ app.ip <= Len(app.program)
    /\ app.program[app.ip].op = "submit"
    /\ app' = [app EXCEPT !.ip = @ + 1, !.started = @ + 2,
                          !.running = {"tts", "video"}]
    /\ UNCHANGED <<runVars, norm, cstore, subs, stock, batch>>

\* A worker thread finishes its fetch, whatever the consumer does.
AppTaskFinishes ==
    /\ app.consumer # "off"
    /\ \E t \in app.running : app' = [app EXCEPT !.running = @ \ {t}]
    /\ UNCHANGED <<runVars, norm, cstore, subs, stock, batch>>

\* The end of the `with ThreadPoolExecutor` block (pipeline.py 232-244).
GenJoin ==
    /\ CanResume(app.consumer)
    /\ app.ip <= Len(app.program)
    /\ app.program[app.ip].op = "join"
    /\ app.running = {}
    /\ app' = [app EXCEPT !.ip = @ + 1]
    /\ UNCHANGED <<runVars, norm, cstore, subs, stock, batch>>

\* scene_assets_list.append (pipeline.py 458, 492, 530)
GenAppend ==
    /\ CanResume(app.consumer)
    /\ app.ip <= Len(app.program)
    /\ app.program[app.ip].op = "append"
    /\ app' = [app EXCEPT !.ip = @ + 1, !.list_len = @ + 1]
    /\ UNCHANGED <<runVars, norm, cstore, subs, stock, batch>>

\* run() yields, next(gen) returns the status and the consumer logs it and
\* looks whether to stop (app.py 111-127); after the break the function
\* returns its locals (app.py 134) and main() takes its exit status.
GenYield ==
    /\ CanResume(app.consumer)
    /\ app.ip <= Len(app.program)
    /\ app.program[app.ip].op = "yield"
    /\ LET status == app.program[app.ip].event
       IN  IF StopsEarly(app.assets_only, status)
           THEN app' = [app EXCEPT !.ip = @ + 1, !.status = status,
                                   !.consumer = "stopped",
                                   !.exit_code = ExitCode(app.returned)]
           ELSE app' = [app EXCEPT !.ip = @ + 1, !.status = status,
                                   !.consumer = "holding"]
    /\ UNCHANGED <<runVars, norm, cstore, subs, stock, batch>>

\* run() returns: StopIteration carries the tuple (app.py 129-134).
GenReturn ==
    /\ CanResume(app.consumer)
    /\ app.ip <= Len(app.program)
    /\ app.program[app.ip].op = "return"
    /\ LET value == Returned(app.list_len, app.program[app.ip].name)
       IN  app' = [app EXCEPT !.ip = @ + 1, !.consumer = "returned",
                              !.returned = value, !.exit_code = ExitCode(value)]
    /\ UNCHANGED <<runVars, norm, cstore, subs, stock, batch>>

\* KeyboardInterrupt in the main thread (app.py 224-226), between two events
\* or inside next(gen); neither handler of run() catches it, run() is not
\* resumed and main() returns 130.
AppInterrupt ==
    /\ app.consumer \in {"holding", "in_next"}
    /\ app' = [app EXCEPT !.consumer = "interrupted", !.exit_code = 130]
    /\ UNCHANGED <<runVars, norm, cstore, subs, stock, batch>>

NextApp ==
    \/ AppNext
    \/ GenCall
    \/ GenSubmit
    \/ AppTaskFinishes
    \/ GenJoin
    \/ GenAppend
    \/ GenYield
    \/ GenReturn
    \/ AppInterrupt

SpecApp == InitApp /\ [][NextApp]_vars

\* =================================================================== claims
Indices(list) == {list[k].index : k \in 1..Len(list)}
LastYielded == yielded[Len(yielded)]
\* the entries of a scene-asset list that are script scenes
SceneEntries(list) == {k \in 1..Len(list) : ~list[k].is_ending_scene}
\* positions of run() after stage 2, ending scene included
AfterStage2 == {"s3_begin", "s3", "s4", "s5", "s5_render", "save"}
ExternalCollaborators == {"movie_metadata", "script_generator", "tts", "footage"}

\* C1: the offset in force while the k-th asset is transcribed is the sum of
\* audio_duration of the assets before it, also after an asset whose
\* transcription raised or produced no words.
ClaimC1_OffsetIsSumOfPriorDurations ==
    \A k \in 1..Len(applied_offset) :
        applied_offset[k] = SumDurations(scene_assets_list, k - 1)

\* C2: every normalized clip lasts its scene's audio_duration to within one
\* frame at 30 fps, also when the source footage is shorter; narrations of
\* 4.0, 5.5 and 3.2 s over 2.0 s sources concatenate to 12.7 s of video and no
\* duration-mismatch warning.
ClaimC2_ClipLastsAudioDuration ==
    /\ \A k \in 1..Len(norm.normalized) :
          Abs(norm.normalized[k] - norm.targets[k]) <= 1
    /\ (/\ norm.phase = "rendered"
        /\ norm.targets = <<Frames(40), Frames(55), Frames(32)>>
        /\ norm.sources = <<Frames(20), Frames(20), Frames(20)>>) =>
           /\ norm.video_duration = Frames(127)
           /\ ~norm.warned

\* C3: when no script can be obtained (generator raises, cache holds no
\* video_script) or the final render fails, the step yields an error event as
\* its last event and the run is over with final_video_path = None: no later
\* stage has run and the cache was not written.
TheoremC3_FatalScriptOrRender ==
    failed \in {"script_generator", "cached_script", "renderer"} =>
        /\ pc = "done"
        /\ final_video_path = ""
        /\ yielded # <<>>
        /\ LastYielded.is_error
        /\ \A k \in 1..(Len(yielded) - 1) : ~yielded[k].is_error
        /\ cache_writes = 0
        /\ fetches = {}
        /\ failed # "renderer" =>
              /\ script = 0
              /\ scene_assets_list = <<>>
              /\ scene_pos = 0
              /\ asset_pos = 0

WitnessC3 ==
    /\ pc = "done"
    /\ failed = "renderer"
    /\ ~offline
    /\ Len(scene_assets_list) >= 2
    /\ LastYielded.is_error

\* C4: online, a scene one of whose two tasks raised yields an error event of
\* stage 2, gets no SceneAssets entry and no scene_<index> cache entry, and
\* the loop goes on; the cache holds entries for exactly the scenes in the list.
TheoremC4_FailedSceneDropped ==
    /\ (~offline /\ pc = "s2" /\ scene_pos > 1 /\
        \E op \in {"tts", "video"} : futures[op] = "failed") =>
           /\ yielded = <<Error(2, "Failed to process scene")>>
           /\ SceneIndex(scene_pos - 1) \notin Indices(scene_assets_list)
           /\ SceneIndex(scene_pos - 1) \notin DOMAIN cache_data.scene_assets
    /\ (~offline /\ pc \in ({"s2", "s2_wait", "s2_ending"} \cup AfterStage2)) =>
           DOMAIN cache_data.scene_assets =
               {scene_assets_list[k].index : k \in SceneEntries(scene_assets_list)}

\* the audio of scene 0 was synthesized, its footage failed, scene 1 is next
WitnessC4 ==
    /\ ~offline
    /\ pc = "s2"
    /\ scene_pos = 2
    /\ scene_pos <= script
    /\ futures["tts"] = "ok"
    /\ futures["video"] = "failed"
    /\ AudioFile(0) \in fs
    /\ scene_assets_list = <<>>

\* C5: the cache file is written at most once per run, never offline, only by
\* a run that ends with a rendered video; a run that ends with
\* final_video_path = None has not written it.
ClaimC5_CacheWrittenOnlyBySuccessfulRun ==
    /\ cache_writes <= 1
    /\ offline => cache_writes = 0
    /\ cache_writes = 1 => pc = "done" /\ final_video_path = "final.mp4"
    /\ (pc = "done" /\ final_video_path = "") => cache_writes = 0

\* C6: an offline run over the cache a successful online run saved, all the
\* files it refers to still on disk, selects the same scene assets in the same
\* order (ending scene included) and calls no external collaborator.
ReplayPrecondition ==
    /\ saved_doc # EmptyCache
    /\ disk = CompleteFile(saved_doc)
    /\ (Referenced(saved_doc) \ {NoPath}) \subseteq fs

TheoremC6_OfflineReplaySelectsSameAssets ==
    (offline /\ ReplayPrecondition) =>
        /\ calls \cap ExternalCollaborators = {}
        /\ pc \in (AfterStage2 \cup {"done"}) =>
               Selection(scene_assets_list) = online_result

WitnessC6 ==
    /\ offline
    /\ ReplayPrecondition
    /\ pc = "done"
    /\ final_video_path = "final.mp4"
    /\ Len(scene_assets_list) >= 2
    /\ scene_assets_list[Len(scene_assets_list)].is_ending_scene
    /\ Selection(scene_assets_list) = online_result

\* C7: offline, a scene whose cached record names a file that is gone yields
\* an error event of stage 2 and is left out; no entry of the result names a
\* missing file, and once the loop is over the result holds exactly the script
\* scenes whose record and files exist.
Usable(doc, files, n) ==
    /\ n \in DOMAIN doc.scene_assets
    /\ doc.scene_assets[n].audio_path \in files
    /\ doc.scene_assets[n].video_path \in files

Stale(doc, files, n) == n \in DOMAIN doc.scene_assets /\ ~Usable(doc, files, n)

TheoremC7_StaleSceneOmitted ==
    offline =>
        /\ (pc = "s2" /\ scene_pos > 1 /\ Stale(cache_data, fs, SceneIndex(scene_pos - 1))) =>
               /\ LastYielded = Error(2, "Cached files not found for scene")
               /\ SceneIndex(scene_pos - 1) \notin Indices(scene_assets_list)
        /\ \A k \in SceneEntries(scene_assets_list) :
               /\ scene_assets_list[k].audio_path \in fs
               /\ scene_assets_list[k].video_path \in fs
        /\ pc \in ({"s2_ending"} \cup AfterStage2) =>
               {scene_assets_list[k].index : k \in SceneEntries(scene_assets_list)} =
                   {n \in 0..(script - 1) : Usable(cache_data, fs, n)}

\* scene 0 is stale, scene 1 was processed after it
WitnessC7 ==
    /\ offline
    /\ pc = "s2_ending"
    /\ Stale(cache_data, fs, 0)
    /\ Indices(scene_assets_list) = {1}

\* C8 as stated: offline, any missing or stale required item (cache document,
\* movie details, script, the record or a file of any script scene) makes the
\* run end with final_video_path = None.
SomeSceneUnusable(doc, files) ==
    \E n \in 0..(doc.video_script - 1) : ~Usable(doc, files, n)

NoUsableScene(doc, files) ==
    \A n \in 0..(doc.video_script - 1) : ~Usable(doc, files, n)

OfflineFatalInStage1(file) ==
    LET loaded == LoadCache(file)
    IN  \/ ~loaded.present
        \/ ~loaded.doc.movie_details.present
        \/ ~loaded.doc.movie_details.plot
        \/ loaded.doc.video_script = 0

ClaimC9_SaveIsAtomic ==
    cstore.loads > 0 => cstore.loaded \in {cstore.old, cstore.new}

\* C10: at most two fetches are in flight, one TTS and one footage download,
\* both of the scene the loop is at; outside _process_scene_parallel none is.
TheoremC10_TwoFetchesOfOneScene ==
    /\ Cardinality(fetches) <= 2
    /\ \A t \in fetches : pc = "s2_wait" /\ t.scene = SceneIndex(scene_pos)
    /\ \A t1, t2 \in fetches : t1.op = t2.op => t1 = t2

\* both fetches of the second scene in flight after the first scene failed
WitnessC10 ==
    /\ pc = "s2_wait"
    /\ scene_pos = 2
    /\ Cardinality(fetches) = 2
    /\ scene_assets_list = <<>>

\* C11: the starts of the words handed to subtitle generation are
\* non-decreasing over the whole list, whichever scenes had an empty or a
\* failed transcription.
NonDecreasingStarts(words) ==
    \A j, k \in 1..Len(words) : j < k => words[j].start <= words[k].start

TheoremC11_WordStartsNonDecreasing ==
    /\ NonDecreasingStarts(all_words)
    /\ \A k \in 1..Len(scene_assets_list) :
          NonDecreasingStarts(scene_assets_list[k].word_timestamps)

\* words of two scenes were collected and some scene contributed none
WitnessC11 ==
    /\ pc = "s4"
    /\ Len(all_words) >= 4
    /\ Len(applied_offset) > Len(all_words) \div 2
    /\ all_words[Len(all_words)].start > all_words[1].start

\* C12: every subtitle event lasts at least 100 ms, whatever the times of
\* the word it was made from, an end at or before the start included.
TheoremC12_EventLastsMinimum ==
    /\ \A k \in 1..Len(subs.events) :
          subs.events[k].end - subs.events[k].start >= 100
    /\ \A k \in 1..Len(subs.saved) :
          subs.saved[k].end - subs.saved[k].start >= 100

\* a file was written with an event for a word that ends before it starts
WitnessC12 ==
    /\ subs.phase = "saved"
    /\ \E k \in 1..Len(subs.saved) :
          /\ subs.all_words[k].end < subs.all_words[k].start
          /\ subs.saved[k].end = subs.saved[k].start + 100

\* C13: the final render runs to the length of the video track when the
\* silent poster tail was appended and to the length of the narration
\* otherwise; without the tail a difference above one second sets the warning
\* and the final render still runs.
TheoremC13_TotalDurationPolicy ==
    norm.phase \in {"final", "rendered"} =>
        /\ norm.silent_segment => norm.total_duration = norm.video_duration
        /\ ~norm.silent_segment => norm.total_duration = norm.voice_duration
        /\ norm.warned <=>
              /\ ~norm.silent_segment
              /\ Abs(norm.video_duration - norm.voice_duration) > 30
        /\ norm.phase = "final" => ENABLED RenderFinal

\* a tail was appended and the video track, footage being short, is not the
\* length of the voice
WitnessC13 ==
    /\ norm.phase = "rendered"
    /\ norm.silent_segment
    /\ norm.video_duration # norm.voice_duration
    /\ norm.total_duration = norm.video_duration

\* C14: no clip made from the poster for a scene flagged is_ending_scene, and
\* no silent tail, has the Ken-Burns zoom.
ClaimC14_EndingSceneIsStatic ==
    \A k \in 1..Len(norm.images) :
        (norm.images[k].is_ending_scene \/ norm.images[k].tail) =>
            ~norm.images[k].ken_burns

\* C15: with an ending scene the output runs SILENT_POSTER_DURATION past the
\* narration, and with background music the output audio carries the music
\* through that tail.
ClaimC15_MusicThroughTail ==
    (/\ norm.phase = "rendered"
     /\ norm.silent_segment
     /\ norm.music
     /\ norm.video_duration = norm.voice_duration + 30) =>
        /\ norm.out_video = norm.voice_duration + 30
        /\ norm.out_audio = norm.voice_duration + 30
        /\ norm.out_music = norm.voice_duration + 30

\* C16 as stated: once stage 2 is over, the list ends with an ending scene
\* whenever a poster image was resolved, and only then.
HasEnding(list) == list # <<>> /\ list[Len(list)].is_ending_scene

ClaimC16_EndingSceneIffPoster ==
    pc \in AfterStage2 =>
        (HasEnding(scene_assets_list) <=>
            (poster_local_path # NoPath /\ poster_local_path \in fs))

\* C16 amended: an ending scene is only ever the last entry of the list and
\* is bound to an existing poster image.  Online it is appended exactly when
\* the poster was resolved and the TTS call for the reveal line succeeded; a
\* failing TTS call yields an error event of stage 2.  Offline it is appended
\* exactly when the cached ending record names an existing audio file and an
\* existing poster.  In every case the run goes on to stage 3.
TheoremC16_EndingScenePolicy ==
    /\ \A k \in 1..Len(scene_assets_list) :
          scene_assets_list[k].is_ending_scene =>
              /\ k = Len(scene_assets_list)
              /\ pc \notin {"s2", "s2_wait", "s2_ending"}
              /\ scene_assets_list[k].poster_path # NoPath
              /\ scene_assets_list[k].poster_path \in fs
              /\ scene_assets_list[k].audio_path \in fs
    /\ (pc = "s3_begin" /\ ~offline) =>
          /\ HasEnding(scene_assets_list) <=>
                 /\ poster_local_path # NoPath
                 /\ poster_local_path \in fs
                 /\ failed # "ending_tts"
          /\ failed = "ending_tts" =>
                 LastYielded = Error(2, "Failed to create ending scene")
    /\ (pc = "s3_begin" /\ offline) =>
          (HasEnding(scene_assets_list) <=>
              /\ cache_data.ending_scene # <<>>
              /\ cache_data.ending_scene[1].audio_path \in fs
              /\ cache_data.ending_scene[1].poster_path \in fs)
    /\ pc = "s2_ending" => ENABLED (Step2EndingOnline \/ Step2EndingOffline)
    /\ pc = "s3_begin" => final_video_path = "" /\ ENABLED Step3Begin

\* the poster is on disk, the TTS call of the reveal line raised, and the run
\* stands at stage 3 without an ending scene
WitnessC16 ==
    /\ pc = "s3_begin"
    /\ ~offline
    /\ poster_local_path \in fs
    /\ failed = "ending_tts"
    /\ ~HasEnding(scene_assets_list)
    /\ scene_assets_list # <<>>

\* C17: every event yielded carries a stage number in 1..5, on error paths
\* too.
ClaimC17_StageNumberInRange ==
    \A k \in 1..Len(yielded) : yielded[k].step \in 1..5

\* C18: the stage numbers of the events never decrease, and the events a step
\* yields carry the number of the stage run() is at: no event of a stage
\* before the work of the stage before it is over.
StageAt(position) ==
    CASE position \in {"s1", "s1_script", "s2_begin"} -> 1
      [] position \in {"s2", "s2_wait", "s2_ending", "s3_begin"} -> 2
      [] position \in {"s3", "s4"} -> 3
      [] position = "s5" -> 4
      [] OTHER -> 5

ClaimC18_StagesInOrder ==
    /\ \A j, k \in 1..Len(yielded) : j < k => yielded[j].step <= yielded[k].step
    /\ pc \notin {"idle", "done"} =>
          \A k \in 1..Len(yielded) : yielded[k].step = StageAt(pc)

\* C19: the script scenes of the list are in script order, all of them before
\* the scene the loop is at; an ending scene is the last entry; stage 3 goes
\* through the list front to back.
TheoremC19_ScriptOrderKept ==
    /\ \A j, k \in SceneEntries(scene_assets_list) :
          j < k => scene_assets_list[j].index < scene_assets_list[k].index
    /\ \A k \in SceneEntries(scene_assets_list) :
          /\ scene_assets_list[k].index \in 0..(script - 1)
          /\ pc \in {"s2", "s2_wait"} =>
                scene_assets_list[k].index < SceneIndex(scene_pos)
    /\ \A k \in 1..Len(scene_assets_list) :
          scene_assets_list[k].is_ending_scene => k = Len(scene_assets_list)
    /\ pc = "s3" =>
          /\ Len(applied_offset) = asset_pos - 1
          /\ \A k \in 1..Len(scene_assets_list) :
                k >= asset_pos => scene_assets_list[k].word_timestamps = <<>>

\* a finished run returned scene 0, scene 1 and the ending scene, in that order
WitnessC19 ==
    /\ pc = "done"
    /\ final_video_path = "final.mp4"
    /\ Len(scene_assets_list) = 3
    /\ scene_assets_list[1].index = 0
    /\ scene_assets_list[2].index = 1
    /\ scene_assets_list[3].is_ending_scene
    /\ Len(applied_offset) = 3

\* C20: a run ends with a final_video_path only when the list is not empty,
\* a script was obtained and the render succeeded; when no scene was
\* processed successfully the run ends at the check after the scene loop with
\* an error event of stage 2 and no path, nothing of stages 3 to 5 having run.
TheoremC20_ResultOnlyAfterRender ==
    /\ (pc = "done" /\ final_video_path # "") =>
          /\ scene_assets_list # <<>>
          /\ SceneEntries(scene_assets_list) # {}
          /\ script > 0
          /\ failed = ""
          /\ LastYielded = Info(5, "Video rendered successfully")
    /\ failed = "no_scenes" =>
          /\ pc = "done"
          /\ final_video_path = ""
          /\ scene_assets_list = <<>>
          /\ yielded = <<Error(2, "No scenes were processed successfully.")>>
          /\ asset_pos = 0
          /\ applied_offset = <<>>
          /\ all_words = <<>>
          /\ subtitle_path = FALSE
          /\ cache_writes = 0
    /\ pc \in ({"s2_ending"} \cup AfterStage2) => SceneEntries(scene_assets_list) # {}

\* every scene of an online run failed
WitnessC20 ==
    /\ pc = "done"
    /\ ~offline
    /\ failed = "no_scenes"
    /\ script = NumScenes
    /\ scene_pos > script
    /\ final_video_path = ""

\* C21: a transcription that raises yields an error event of stage 3; the
\* scene stays in the list without captions, the loop goes on with the next
\* asset, and stages 4 and 5 run.
\* The transcription of asset k raised: the offset did not move over it.
WhisperRaisedAt(k) ==
    k < Len(applied_offset) /\ applied_offset[k + 1] = applied_offset[k]

TheoremC21_TranscriptionFailureKeepsScene ==
    /\ failed = "whisper" =>
          /\ pc = "s3"
          /\ LastYielded.is_error /\ LastYielded.step = 3
          /\ asset_pos - 1 \in 1..Len(scene_assets_list)
          /\ scene_assets_list[asset_pos - 1].word_timestamps = <<>>
          /\ final_video_path = ""
    /\ pc = "s3" => ENABLED (Step3Transcribe \/ Step3Done)
    /\ pc = "s4" => ENABLED Step4Subtitles
    /\ pc = "s5" => ENABLED Step5Begin
    /\ pc = "s5_render" => ENABLED Step5Render
    /\ pc \in {"s4", "s5", "s5_render", "save"} =>
          Len(applied_offset) = Len(scene_assets_list)
    /\ \A k \in 1..Len(scene_assets_list) :
          WhisperRaisedAt(k) => scene_assets_list[k].word_timestamps = <<>>
    /\ (~offline /\ pc \in AfterStage2) =>
          DOMAIN cache_data.scene_assets =
              {scene_assets_list[k].index : k \in SceneEntries(scene_assets_list)}

\* the transcription of the first scene raised and the video was rendered
\* with that scene in it
WitnessC21 ==
    /\ pc = "done"
    /\ final_video_path = "final.mp4"
    /\ WhisperRaisedAt(1)
    /\ Len(scene_assets_list) >= 2
    /\ scene_assets_list[1].word_timestamps = <<>>
    /\ scene_assets_list[2].word_timestamps # <<>>

\* ---------------------------------------------------------------- C22
\* The words a call extracted, and the input items that carry a text.
NonBlank(item) == \E k \in 1..Len(item.text) : item.text[k] # " "
NonBlankItems == {k \in 1..Len(subs.input) : NonBlank(subs.input[k])}
CeilDiv(w, n) == (w + n - 1) \div n

\* C22: a written file holds one caption event per group of words_per_line
\* words, that is ceil(W / N) events for W non-empty words, and so one per
\* word when words_per_line is 1.
ClaimC22_OneEventPerGroup ==
    subs.phase = "saved" =>
        Len(subs.saved) = CeilDiv(Len(subs.all_words), subs.words_per_line)

\* ---------------------------------------------------------------- C23
\* C23: the call raises exactly when no item of the input carries a word,
\* an item without text among items with text does not make it raise, and the
\* file then holds one caption per non-empty word, in the order of the input.
TheoremC23_RaisesOnlyOnNoWords ==
    /\ subs.phase = "raised" => NonBlankItems = {}
    /\ subs.phase \in {"events", "saved"} =>
          /\ NonBlankItems # {}
          /\ Len(subs.all_words) = Cardinality(NonBlankItems)
    /\ subs.phase = "saved" =>
          /\ Len(subs.saved) = Cardinality(NonBlankItems)
          /\ \A k \in 1..Len(subs.saved) :
                \E j \in NonBlankItems :
                   /\ Cardinality({i \in NonBlankItems : i <= j}) = k
                   /\ subs.saved[k].start = ToMs(subs.input[j].start)

\* a file was written from an input whose first item has no text and whose
\* second item has one
WitnessC23 ==
    /\ subs.phase = "saved"
    /\ Len(subs.input) = 2
    /\ ~NonBlank(subs.input[1])
    /\ NonBlank(subs.input[2])
    /\ Len(subs.saved) = 1

\* ---------------------------------------------------------------- C27
\* C27: the text of every caption event is the word in lower case with no
\* punctuation character left anywhere in it, and every event of the file
\* has the one style.
ClaimC27_NoPunctuationAnywhere ==
    subs.phase = "saved" =>
        \A k \in 1..Len(subs.saved) :
           /\ \A i \in 1..Len(subs.saved[k].text) : subs.saved[k].text[i] \notin {"!", "A"}
           /\ subs.saved[k].style = StyleName

\* ---------------------------------------------------------------- C24
\* C24: the final render burns the captions in only when a subtitle file
\* was given, exists, and ffmpeg lists the ass filter; when the filter is
\* missing or asking for the filters raised, the render is still run, without
\* captions, and gives the same tracks.
TheoremC24_CaptionsOnlyWithAssFilter ==
    /\ norm.phase = "final" => ENABLED RenderFinal
    /\ norm.phase \in {"rendered", "render_failed"} =>
          /\ norm.ass_filter <=> (norm.subtitle_path = "exists" /\ norm.filters = "ass")
          /\ norm.filters \in {"no_ass", "raises"} => ~norm.ass_filter
    /\ norm.phase = "rendered" =>
          /\ norm.out_video = OutputVideo(norm.video_duration, norm.total_duration)
          /\ norm.out_audio = OutputAudio(norm.voice_duration, norm.total_duration)

\* a video was rendered without captions although the subtitle file exists,
\* because asking ffmpeg for its filters raised
WitnessC24 ==
    /\ norm.phase = "rendered"
    /\ norm.subtitle_path = "exists"
    /\ norm.filters = "raises"
    /\ ~norm.ass_filter
    /\ norm.out_video > 0

\* ---------------------------------------------------------------- C25
EveryQueryFailed == Len(stock.failed_queries) = Len(stock.queries)

\* C25: download_video returns the local fallback clip, flagged in the
\* metadata, exactly when every query failed and a fallback .mp4 exists, a
\* network result otherwise, and raises only when every query failed and no
\* fallback clip exists.
ClaimC25_FallbackOrNetworkResult ==
    /\ stock.phase = "returned" =>
          /\ stock.metadata_fallback <=>
                (EveryQueryFailed /\ stock.fallback = "files")
          /\ stock.metadata_fallback <=> stock.path = "fallback"
    /\ stock.phase = "raised" =>
          /\ EveryQueryFailed
          /\ stock.fallback # "files"

\* ---------------------------------------------------------------- C29
\* C29: after stage 3 the word_timestamps kept on each entry of the scene
\* list are scene-local, every time lying between 0 and the length of that
\* scene's own audio; only the words handed to the subtitles are global.
ClaimC29_StoredWordsSceneLocal ==
    pc \in {"s4", "s5", "s5_render", "save", "done"} =>
        \A k \in 1..Len(scene_assets_list) :
           \A i \in 1..Len(scene_assets_list[k].word_timestamps) :
              LET word == scene_assets_list[k].word_timestamps[i]
              IN  /\ 0 <= word.start
                  /\ word.start <= word.end
                  /\ word.end <= scene_assets_list[k].audio_duration

RECURSIVE StoredWords(_)
StoredWords(list) ==
    IF list = <<>> THEN <<>>
    ELSE list[1].word_timestamps \o StoredWords(Tail(list))

\* The statement that holds: the word_timestamps kept on each entry carry
\* the same re-based times as the words handed to the subtitles, every time
\* lying in the window that starts at the offset in force for that scene.
TheoremC29_StoredWordsRebased ==
    /\ pc \in {"s3", "s4", "s5", "s5_render", "save"} =>
          StoredWords(scene_assets_list) = all_words
    /\ pc \in {"s4", "s5", "s5_render", "save"} =>
          \A k \in 1..Len(scene_assets_list) :
             \A i \in 1..Len(scene_assets_list[k].word_timestamps) :
                LET word == scene_assets_list[k].word_timestamps[i]
                IN  /\ applied_offset[k] <= word.start
                    /\ word.start <= word.end
                    /\ word.end <= applied_offset[k] + scene_assets_list[k].audio_duration

\* stage 3 is over and the words kept on the second scene start after the
\* end of that scene's own audio
WitnessC29 ==
    /\ pc = "s4"
    /\ Len(scene_assets_list) >= 2
    /\ scene_assets_list[1].word_timestamps # <<>>
    /\ scene_assets_list[2].word_timestamps # <<>>
    /\ scene_assets_list[2].word_timestamps[1].start >= scene_assets_list[1].audio_duration
    /\ scene_assets_list[2].word_timestamps[2].start > scene_assets_list[2].audio_duration

\* ---------------------------------------------------------------- C26
\* The steps of run() still ahead that belong to the loop over the scenes.
SceneWorkAhead ==
    \E k \in app.ip..Len(app.program) :
       \/ app.program[k].op \in {"submit", "join"}
       \/ app.program[k].event \in {Info(2, "Processing scene"), Info(2, "Using cached assets")}

\* C26: in assets-only mode the consumer stops only once stage 2 has
\* processed every scene, before any transcription or render, and returns
\* the gathered list, not empty, with no final video, so that main() exits
\* with success.
ClaimC26_AssetsOnlyReturnsAssets ==
    (app.consumer = "stopped") =>
        /\ app.assets_only
        /\ ~SceneWorkAhead
        /\ app.status.step = 2
        /\ app.returned.scene_assets = app.list_len
        /\ app.returned.scene_assets > 0
        /\ app.returned.final = ""
        /\ app.exit_code = 0

\* ---------------------------------------------------------------- C30
\* The work run() has done so far.
WorkDone(a) == <<a.ip, a.started, a.cache_writes, a.list_len>>

\* C30: run() works only inside next(gen).  While the consumer holds an
\* event, has stopped, has been interrupted or has the result, no call is
\* started, the cache is not written and no scene is added; no fetch is in
\* flight when an event is handed over; after an interrupt the fetches in
\* flight can still finish.
TheoremC30_WorksOnlyWhenPulled ==
    /\ [](app.consumer \in {"holding", "stopped", "returned"} => app.running = {})
    /\ [](app.consumer = "interrupted" /\ app.running # {} => ENABLED AppTaskFinishes)
    /\ [][app.consumer # "in_next" => WorkDone(app') = WorkDone(app)]_vars

\* the consumer was interrupted while the two fetches of the first scene
\* were running: both have finished, the scene was not added and the next
\* scene, still ahead, was not started
WitnessC30 ==
    /\ app.consumer = "interrupted"
    /\ app.running = {}
    /\ app.ip <= Len(app.program)
    /\ app.program[app.ip].op = "join"
    /\ app.list_len = 0
    /\ \E k \in (app.ip + 1)..Len(app.program) : app.program[k].op = "submit"

\* ---------------------------------------------------------------- C33
\* C33: the index values of the entries of the scene list are pairwise
\* distinct, the ending scene included, whichever scenes stage 2 dropped.
ClaimC33_IndicesDistinct ==
    \A j, k \in 1..Len(scene_assets_list) :
       scene_assets_list[j].index = scene_assets_list[k].index => j = k

\* ---------------------------------------------------------------- C34
\* C34: when the cache is saved, its scene_assets map has one entry per
\* script scene of the result, under the index of that scene, and none for a
\* dropped scene; it has the ending_scene entry exactly when the result ends
\* with an ending scene; every entry holds the paths and the duration of the
\* result entry.
TheoremC34_CacheMirrorsResult ==
    pc = "save" =>
        /\ ~offline
        /\ DOMAIN cache_data.scene_assets =
              {scene_assets_list[k].index : k \in SceneEntries(scene_assets_list)}
        /\ \A k \in SceneEntries(scene_assets_list) :
              cache_data.scene_assets[scene_assets_list[k].index] =
                  [audio_path |-> scene_assets_list[k].audio_path,
                   audio_duration |-> scene_assets_list[k].audio_duration,
                   video_path |-> scene_assets_list[k].video_path]
        /\ (cache_data.ending_scene # <<>>) <=> HasEnding(scene_assets_list)
        /\ HasEnding(scene_assets_list) =>
              LET ending == scene_assets_list[Len(scene_assets_list)]
              IN  cache_data.ending_scene =
                     <<[audio_path |-> ending.audio_path,
                        audio_duration |-> ending.audio_duration,
                        poster_path |-> ending.poster_path]>>

\* the cache is about to be saved for a result that lost its first scene and
\* has an ending scene
WitnessC34 ==
    /\ pc = "save"
    /\ Len(scene_assets_list) = 2
    /\ scene_assets_list[1].index = 1
    /\ scene_assets_list[2].is_ending_scene
    /\ DOMAIN cache_data.scene_assets = {1}

\* ---------------------------------------------------------------- C35
\* C35: a failure of the subtitle generation, the one for an empty word list
\* included, is not fatal: the step ends with an error event of stage 4, the
\* subtitle path is cleared, run() goes on to stage 5 and the render is
\* called without a subtitle file.
TheoremC35_SubtitleFailureNotFatal ==
    /\ failed = "subtitles" =>
          /\ pc = "s5"
          /\ LastYielded.is_error
          /\ LastYielded.step = 4
          /\ subtitle_path = FALSE
          /\ final_video_path = ""
          /\ ENABLED Step5Begin
    /\ pc \in {"s5", "s5_render", "save"} /\ all_words = <<>> => subtitle_path = FALSE
    /\ pc = "s5_render" => ENABLED Step5Render

\* a video was rendered although every transcription came back without
\* words and the subtitle generation failed
WitnessC35 ==
    /\ pc = "done"
    /\ final_video_path = "final.mp4"
    /\ subtitle_path = FALSE
    /\ all_words = <<>>
    /\ scene_assets_list # <<>>

\* ---------------------------------------------------------------- C38
\* C38: loading a cache file that exists but holds no valid JSON document
\* gives None and does not raise.
ClaimC38_CorruptCacheLoadsAsNone ==
    (/\ cstore.phase # "off"
     /\ cstore.loads > 0
     /\ cstore.file # Missing
     /\ LoadFile(cstore.file) = 0) =>
        /\ cstore.loaded = 0
        /\ ~cstore.load_raised

\* ---------------------------------------------------------------- C36
\* What a step of run() can report as failed because a collaborator raised:
\* failures that end the run, and failures of one scene.
RaisedFatal == {"movie_metadata", "script_generator", "renderer", "save_cache"}
RaisedAbsorbed == {"scene_fetch", "ending_tts", "whisper", "subtitles"}

\* The steps of run() itself.
RunStep ==
    \/ Step1Online \/ Step1Offline \/ Step1ScriptOnline \/ Step1ScriptOffline
    \/ Step2Begin \/ Step2SceneOffline \/ Step2Submit \/ Step2Join \/ Step2Done
    \/ Step2EndingOffline \/ Step2EndingOnline
    \/ Step3Begin \/ Step3Transcribe \/ Step3Done
    \/ Step4Subtitles \/ Step5Begin \/ Step5Render \/ SaveCache
    \/ \E t \in fetches, d \in Durations : TtsReturns(t, d)
    \/ \E t \in fetches : VideoReturns(t)
    \/ \E t \in fetches : TaskRaises(t)

TheoremC37_ParallelResultDeterministic ==
    /\ pc = "s2_wait" =>
          LET n == SceneIndex(scene_pos)
          IN  /\ (futures["tts"] = "ok") <=> (audio_result \in Durations)
              /\ futures["tts"] # "ok" => audio_result = 0
              /\ (futures["video"] = "ok") <=> (video_result = VideoFile(n))
              /\ futures["video"] # "ok" => video_result = NoPath
              /\ \A op \in {"tts", "video"} :
                    (Task(op, n) \in fetches) <=> (futures[op] = "running")
              /\ (ENABLED Step2Join) <=>
                    (\A op \in {"tts", "video"} : futures[op] # "running")
    /\ pc # "s2_wait" =>
          /\ fetches = {}
          /\ audio_result = 0
          /\ video_result = NoPath

\* the download finished before the narration, and the call can return both
WitnessC37 ==
    /\ pc = "s2_wait"
    /\ status_messages = <<"Generating TTS", "Searching Pexels",
                           "Downloaded video", "TTS complete">>
    /\ audio_result = MaxDuration
    /\ video_result = VideoFile(SceneIndex(scene_pos))
    /\ ENABLED Step2Join

\* ---------------------------------------------------------------- C39
\* C39: the list of videos, the list of narration audios and the list of
\* target durations of render_from_scenes are aligned by index: entry i of
\* each belongs to scene i, the target of entry i is that scene's
\* audio_duration and is the target handed to the normalisation of video i.
\* The one video without an audio entry is the silent poster segment; it is
\* the last entry and its target is SILENT_POSTER_DURATION.
TheoremC39_ListsAligned ==
    norm.phase # "off" =>
       /\ Len(norm.vf) = Len(norm.targets)
       /\ Len(norm.vf) = Len(norm.sources)
       /\ Len(norm.af) = Len(norm.audios)
       /\ Len(norm.af) <= Len(norm.scenes)
       /\ \A i \in 1..Len(norm.af) :
             /\ norm.af[i] = i
             /\ norm.vf[i] = i
             /\ norm.audios[i] = norm.scenes[i].target
             /\ norm.targets[i] = norm.scenes[i].target
       /\ Len(norm.vf) \in {Len(norm.af), Len(norm.af) + 1}
       /\ Len(norm.vf) = Len(norm.af) + 1 =>
             /\ norm.silent_segment
             /\ norm.vf[Len(norm.vf)] = SilentSegment
             /\ norm.targets[Len(norm.vf)] = SILENT_POSTER_DURATION * FPS
             /\ Len(norm.af) = Len(norm.scenes)
       /\ norm.phase # "list" =>
             (norm.silent_segment <=> Len(norm.vf) = Len(norm.af) + 1)
       /\ \A i \in 1..Len(norm.normalized) :
             norm.normalized[i] = NormalizeVideo(norm.sources[i], norm.targets[i])

\* three footage scenes and an ending scene, all five videos normalised
WitnessC39 ==
    /\ norm.phase = "normalize"
    /\ Len(norm.af) = MaxClips + 1
    /\ Len(norm.vf) = MaxClips + 2
    /\ Len(norm.normalized) = Len(norm.vf)
    /\ norm.targets[1] # norm.targets[2]

\* ---------------------------------------------------------------- C40
\* The stages of run() counted from its end.
StageRank(p) ==
    CASE p = "s1" -> 12
      [] p = "s1_script" -> 11
      [] p = "s2_begin" -> 10
      [] p \in {"s2", "s2_wait"} -> 9
      [] p = "s2_ending" -> 8
      [] p = "s3_begin" -> 7
      [] p = "s3" -> 6
      [] p = "s4" -> 5
      [] p = "s5" -> 4
      [] p = "s5_render" -> 3
      [] p = "save" -> 2
      [] OTHER -> 0

\* More than the steps one stage can take: four for each scene of the script
\* (submit, two tasks, join), one for each entry of the result.
StageSteps == 4 * (NumScenes + 2)

\* The work left inside the current stage: the scenes of the script not yet
\* processed, and the entries of the result not yet transcribed.
WorkLeft ==
    CASE pc = "s2" -> 4 * (script + 1 - scene_pos)
      [] pc = "s2_wait" ->
            4 * (script + 1 - scene_pos) - 1
               - Cardinality({op \in {"tts", "video"} : futures[op] # "running"})
      [] pc = "s3" -> Len(scene_assets_list) + 1 - asset_pos
      [] OTHER -> 0

\* A measure of the run that is left.
Rank == StageRank(pc) * StageSteps + WorkLeft

\* C40: a run ends after finitely many steps, each with finitely many events:
\* the measure Rank is a natural number that every step of run() makes
\* smaller, and a run that has not returned has a next step.  The scene loop
\* and the transcription loop only go forward, one position for each call, so
\* no scene is fetched twice, no entry transcribed twice, and a failed scene
\* is not tried again.
TheoremC40_RunTerminates ==
    /\ [](/\ Rank \in 0..(13 * StageSteps)
          /\ WorkLeft \in 0..(StageSteps - 1)
          /\ Len(yielded) <= 8
          /\ \A k \in 1..Len(yielded) : yielded[k].step \in 0..5
          /\ pc \notin {"idle", "done"} => ENABLED RunStep
          /\ pc = "s3" => Len(applied_offset) = asset_pos - 1
          /\ Len(applied_offset) <= Len(scene_assets_list))
    /\ [][/\ pc \notin {"idle", "done"} => Rank' < Rank \/ (pc' = pc /\ Rank' = Rank /\ yielded' = yielded)
          /\ (pc = "s2" /\ pc' = "s2_wait") =>
                Task("tts", SceneIndex(scene_pos)) \notin fetches
          /\ (pc = "s2_wait" /\ pc' = "s2") => scene_pos' = scene_pos + 1
          /\ (pc \in {"s2", "s2_wait"} /\ pc' \in {"s2", "s2_wait"}) =>
                scene_pos' >= scene_pos
          /\ (pc = "s3" /\ pc' = "s3") => asset_pos' \in {asset_pos, asset_pos + 1}
          /\ (pc = "s3" /\ asset_pos' = asset_pos + 1) =>
                Len(applied_offset') = Len(applied_offset) + 1
      ]_vars

\* a returned run that lost a scene of its script and transcribed each entry
\* of its result
WitnessC40 ==
    /\ pc = "done"
    /\ final_video_path = "final.mp4"
    /\ ~offline
    /\ script = NumScenes
    /\ Len(scene_assets_list) = NumScenes
    /\ HasEnding(scene_assets_list)
    /\ Len(applied_offset) = Len(scene_assets_list)

\* ================================================================ SpecBatch
\* batch_runner.py and the two sheet operations of cloud_services.py.  The
\* sheet is its data rows in order; data row k (counted from 0) is row k + 2
\* of the sheet, row 1 holding the headers.

\* Data rows of the sheet.
MaxRows == 3

\* Row number of the headers (cloud_services.py 124, 184).
HeaderRow == 1

\* get_pending_jobs (cloud_services.py 104-127): the records whose Status is
\* 'Pending', in sheet order, each with the number of its row.
RECURSIVE PendingFrom(_, _)
PendingFrom(records, i) ==
    IF i >= Len(records) THEN <<>>
    ELSE (IF records[i + 1].Status = "Pending"
          THEN <<[movie_name |-> records[i + 1].movie_name, _row_index |-> i + 2]>>
          ELSE <<>>) \o PendingFrom(records, i + 1)

GetPendingJobs(records) == PendingFrom(records, 0)

\* run_batch at batch_runner.py 220-222: pending_jobs[:limit] when a positive
\* limit is given; 0 stands for None.
Limited(jobs, limit) ==
    IF limit > 0 /\ limit < Len(jobs) THEN SubSeq(jobs, 1, limit) ELSE jobs

\* update_row (cloud_services.py 170-195) for the Status column: the cell of
\* sheet row row_index is written.
UpdateRow(records, row_index, status) ==
    [k \in 1..Len(records) |->
        IF k = row_index - HeaderRow THEN [records[k] EXCEPT !.Status = status]
        ELSE records[k]]

InitBatch ==
    /\ InitRun
    /\ norm = NormOff
    /\ cstore = CacheOff
    /\ subs = SubsOff
    /\ stock = StockOff
    /\ app = AppOff
    /\ \E n \in 1..MaxRows, limit \in 0..(MaxRows - 1) :
         \E status \in [1..n -> {"Pending", "Completed"}], named \in [1..n -> BOOLEAN] :
            batch = [phase |-> "fetch",
                     records |-> [k \in 1..n |-> [Status |-> status[k],
                                                  movie_name |-> named[k]]],
                     limit |-> limit,
                     pending_jobs |-> <<>>, i |-> 0,
                     mp4_path |-> FALSE, script |-> FALSE,
                     \* history: the rows the loop body was entered for, the
                     \* rows the pipeline was run for, the jobs that failed
                     \* (a row without a name once it is marked 'Failed')
                     entered |-> <<>>, piped |-> <<>>, failures |-> {},
                     sheet_error |-> FALSE]

\* The job of the current iteration.
Job == batch.pending_jobs[batch.i]

\* batch_runner.py 213-224: the pending jobs are fetched once.
BatchFetch ==
    /\ batch.phase = "fetch"
    /\ LET jobs == Limited(GetPendingJobs(batch.records), batch.limit)
       IN  batch' = [batch EXCEPT !.pending_jobs = jobs,
                                  !.i = 1,
                                  !.phase = IF jobs = <<>> THEN "returned" ELSE "loop"]
    /\ UNCHANGED <<runVars, norm, cstore, subs, stock, app>>

\* batch_runner.py 226-243: a row without a movie name is marked 'Failed' and
\* the loop goes on; update_row returns or raises.
BatchSkip ==
    /\ batch.phase = "loop"
    /\ batch.i <= Len(batch.pending_jobs)
    /\ ~Job.movie_name
    /\ \E written \in BOOLEAN :
          batch' = [batch EXCEPT
              !.entered = Append(@, Job._row_index),
              !.failures = IF written THEN @ \cup {batch.i} ELSE @,
              !.records = IF written THEN UpdateRow(@, Job._row_index, "Failed") ELSE @,
              !.i = IF written THEN @ + 1 ELSE @,
              !.sheet_error = ~written,
              !.phase = IF written THEN "loop" ELSE "raised"]
    /\ UNCHANGED <<runVars, norm, cstore, subs, stock, app>>

\* process_movie is called and marks the row 'Processing' (batch_runner.py
\* 249-254, 116-123); this update_row is outside the try.
MarkProcessing ==
    /\ batch.phase = "loop"
    /\ batch.i <= Len(batch.pending_jobs)
    /\ Job.movie_name
    /\ \E written \in BOOLEAN :
          batch' = [batch EXCEPT
              !.entered = Append(@, Job._row_index),
              !.records = IF written THEN UpdateRow(@, Job._row_index, "Processing")
                          ELSE @,
              !.sheet_error = ~written,
              !.phase = IF written THEN "pipeline" ELSE "raised"]
    /\ UNCHANGED <<runVars, norm, cstore, subs, stock, app>>

\* batch_runner.py 125-144: run_pipeline returns its result or raises; a
\* result without a video or without a script is turned into a RuntimeError.
RunPipeline ==
    /\ batch.phase = "pipeline"
    /\ \E raises \in BOOLEAN, mp4_path \in BOOLEAN, script_made \in BOOLEAN :
          \* run() returns a video path only together with its script
          /\ raises => ~mp4_path /\ ~script_made
          /\ mp4_path => script_made
          /\ batch' = [batch EXCEPT
                !.piped = Append(@, Job._row_index),
                !.mp4_path = mp4_path,
                !.script = script_made,
                !.failures = IF raises \/ ~mp4_path \/ ~script_made
                             THEN @ \cup {batch.i} ELSE @,
                !.phase = IF raises \/ ~mp4_path \/ ~script_made
                          THEN "except" ELSE "caption"]
    /\ UNCHANGED <<runVars, norm, cstore, subs, stock, app>>

\* batch_runner.py 147-154: generate_social_caption returns or raises;
\* save_caption_file catches its own errors.
GenerateCaption ==
    /\ batch.phase = "caption"
    /\ \E raises \in BOOLEAN :
          batch' = [batch EXCEPT
              !.failures = IF raises THEN @ \cup {batch.i} ELSE @,
              !.phase = IF raises THEN "except" ELSE "icloud"]
    /\ UNCHANGED <<runVars, norm, cstore, subs, stock, app>>

\* batch_runner.py 156-158: copy_to_icloud returns a path or None, or
\* shutil.copy2 raises.
CopyToICloud ==
    /\ batch.phase = "icloud"
    /\ \E raises \in BOOLEAN :
          batch' = [batch EXCEPT
              !.failures = IF raises THEN @ \cup {batch.i} ELSE @,
              !.phase = IF raises THEN "except" ELSE "complete"]
    /\ UNCHANGED <<runVars, norm, cstore, subs, stock, app>>

\* batch_runner.py 160-180: the row is marked 'Completed'; the call is inside
\* the try.
MarkCompleted ==
    /\ batch.phase = "complete"
    /\ \E written \in BOOLEAN :
          batch' = [batch EXCEPT
              !.records = IF written THEN UpdateRow(@, Job._row_index, "Completed")
                          ELSE @,
              !.failures = IF written THEN @ ELSE @ \cup {batch.i},
              !.i = IF written THEN @ + 1 ELSE @,
              !.mp4_path = IF written THEN FALSE ELSE @,
              !.script = IF written THEN FALSE ELSE @,
              !.phase = IF written THEN "loop" ELSE "except"]
    /\ UNCHANGED <<runVars, norm, cstore, subs, stock, app>>

\* The except clause of process_movie (batch_runner.py 182-198): the row is
\* marked 'Failed'; an exception of this update_row leaves process_movie.
MarkFailed ==
    /\ batch.phase = "except"
    /\ \E written \in BOOLEAN :
          batch' = [batch EXCEPT
              !.records = IF written THEN UpdateRow(@, Job._row_index, "Failed") ELSE @,
              !.i = IF written THEN @ + 1 ELSE @,
              !.mp4_path = IF written THEN FALSE ELSE @,
              !.script = IF written THEN FALSE ELSE @,
              !.sheet_error = ~written,
              !.phase = IF written THEN "loop" ELSE "raised"]
    /\ UNCHANGED <<runVars, norm, cstore, subs, stock, app>>

\* batch_runner.py 226, 256: the loop is over.
BatchReturn ==
    /\ batch.phase = "loop"
    /\ batch.i > Len(batch.pending_jobs)
    /\ batch' = [batch EXCEPT !.phase = "returned"]
    /\ UNCHANGED <<runVars, norm, cstore, subs, stock, app>>

NextBatch ==
    \/ BatchFetch
    \/ BatchSkip
    \/ MarkProcessing
    \/ RunPipeline
    \/ GenerateCaption
    \/ CopyToICloud
    \/ MarkCompleted
    \/ MarkFailed
    \/ BatchReturn

SpecBatch == InitBatch /\ [][NextBatch]_vars

\* ---------------------------------------------------------------- C31
\* Is process_movie at work on sheet row r?
InProcessMovie(r) ==
    /\ batch.phase \in {"pipeline", "caption", "icloud", "complete", "except"}
    /\ Job._row_index = r

StatusOf(r) == batch.records[r - HeaderRow].Status

\* C31: the row of a job is 'Processing' while process_movie runs the
\* pipeline and what follows it; once process_movie is over the row is
\* 'Completed' or 'Failed', never 'Processing', and it is 'Completed' only if
\* the pipeline returned a video and a script and the caption was generated.
ClaimC31_RowEndsInTerminalStatus ==
    batch.phase # "off" =>
       \A k \in 1..Len(batch.piped) :
          LET r == batch.piped[k]
          IN  /\ InProcessMovie(r) => StatusOf(r) = "Processing"
              /\ ~InProcessMovie(r) => StatusOf(r) \in {"Completed", "Failed"}
              /\ (~InProcessMovie(r) /\ StatusOf(r) = "Completed") =>
                    \A j \in batch.failures : batch.pending_jobs[j]._row_index # r

\* ---------------------------------------------------------------- C32
\* run_batch is over: it returned, or an exception left it.
BatchOver == batch.phase \in {"returned", "raised"}

\* C32: the pending jobs are taken one at a time in sheet order, each with
\* the number of its own row, and when a job failed (no video, an exception
\* inside the job, no movie name) the job after it is still processed.
ClaimC32_FailureDoesNotStopBatch ==
    batch.phase \notin {"off", "fetch"} =>
       /\ \A j \in 1..Len(batch.pending_jobs) :
             LET job == batch.pending_jobs[j]
             IN  /\ job._row_index - HeaderRow \in 1..Len(batch.records)
                 /\ batch.records[job._row_index - HeaderRow].movie_name = job.movie_name
                 /\ \A m \in 1..(j - 1) :
                       batch.pending_jobs[m]._row_index < job._row_index
       /\ Len(batch.entered) <= Len(batch.pending_jobs)
       /\ \A k \in 1..Len(batch.entered) :
             batch.entered[k] = batch.pending_jobs[k]._row_index
       /\ BatchOver =>
             \A j \in batch.failures :
                j < Len(batch.pending_jobs) => Len(batch.entered) > j

====
